---- MODULE Spec2Model ----
(***************************************************************************)
(* State-machine model of the task-based sweeps of slate:                  *)
(*   - internal::specialization::potrf, generic target  (part_001:26-127)  *)
(*   - internal::specialization::potrf, Target::Devices (part_001:197-361) *)
(*   - work::trsmA, forward and backward sweep    (work_trsmA.cc:53-491)   *)
(*   - lapack_api::slate_gesv                     (lapack_gesv.cc:88-148)  *)
(* One process of the p x q grid (rank cfg.me) is observed: the master     *)
(* thread walks the driver loop and submits OpenMP tasks, the runtime      *)
(* starts a task once every earlier sibling with a conflicting depend      *)
(* clause has finished, and a task's body takes effect when it finishes.   *)
(***************************************************************************)
EXTENDS Integers, Sequences, FiniteSets, TLC

\* ------------------------------------------------------------------ bounds
\* Single-process runs (Spec): token count and lookahead depth.
MaxNt == 4
MaxLookahead == 2
\* Runs on a process grid (GridSpec): grid shape, token count, lookahead
\* depth and tile columns of B.
MaxP == 2
MaxQ == 2
GridMaxNt == 3
GridMaxLookahead == 2
MaxBnt == 2
\* Tile size nb, and the order n of the matrix handed to slate_gesv.
TileNb == 1
MaxN == 3

\* Tile sizes nb of the matrices slate_gesv builds: 1..MaxNb.  The BLAS
\* thread count on entry to slate_gesv: 1..MaxThreads.
MaxNb == 2
MaxThreads == 2
\* Runs over every side, operand transform and target (VariantSpec).
VarMaxNt == 2
VarMaxLookahead == 1
\* Single-call routines (UnitSpec): order of the tile handed to
\* convert_layout, padding lda - n of its buffer, first value of its data,
\* and order of the tridiagonal matrix handed to stedc.
MaxTileN == 2
MaxPad == 1
MaxSeed == 1
MaxEigN == 2
\* Runs of trsmA with a scaling factor (ScaleSpec): alpha ranges over
\* 1..MaxAlpha.
MaxAlpha == 2

VARIABLES cfg, pc, k, j, tasks, st, hist, kernel_info, retval, comm, info, reg,
          ops, Adata, Bdata, layout, Qout, Dout, caller, args,
          pivots, ipiv, p_count, t_iter_add, t_iter, p_iter,
          num_blas_threads, saved_num_blas_threads

vars == <<cfg, pc, k, j, tasks, st, hist, kernel_info, retval, comm, info, reg,
          ops, Adata, Bdata, layout, Qout, Dout, caller, args,
          pivots, ipiv, p_count, t_iter_add, t_iter, p_iter,
          num_blas_threads, saved_num_blas_threads>>

\* The matrix views of a call: the caller's objects and the by-value
\* parameters of the callee.
views == <<caller, args>>

\* State of the single-tile and single-call routines (convert_layout, stedc).
tile == <<Adata, Bdata, layout, Qout, Dout>>

unit == <<Adata, Bdata, layout, Qout, Dout, caller, args>>

\* State of the LAPACK interface (slate_gesv): the Pivots structure, the
\* caller's ipiv array, the locals of the extraction loop and the BLAS
\* thread count.
lapack == <<pivots, ipiv, p_count, t_iter_add, t_iter, p_iter,
            num_blas_threads, saved_num_blas_threads>>

\* State of the task sweeps.
sweep == <<k, j, tasks, st, hist, kernel_info, comm, info, reg>>

\* A function result that carries no value (a void return, an unset output).
NoValue == 0 - 1

Min(S) == CHOOSE x \in S : \A y \in S : x <= y

\* ------------------------------------------------------- call configuration
\* cfg.nt is the number of dependency tokens: A.nt() of potrf, B.mt() of trsmA.
A_nt == cfg.nt
lookahead == cfg.lookahead

\* Sweep direction: potrf always sweeps forward (an upper A is conj-transposed
\* to lower first); trsmA sweeps forward iff A is stored lower.
Forward == cfg.routine = "potrf" \/ cfg.uplo = "Lower"

\* transpose(A) and conj_transpose(A) of a matrix view toggle its operand
\* transform.
transpose(op) == IF op = "NoTrans" THEN "Trans" ELSE "NoTrans"

conj_transpose(op) == IF op = "NoTrans" THEN "ConjTrans" ELSE "NoTrans"

\* Operand transform of A after trsmA has turned a right-side solve into a
\* left-side one.
SideOp(side, op) ==
    IF side = "Right"
    THEN IF op = "ConjTrans" THEN conj_transpose(op) ELSE transpose(op)
    ELSE op

\* A.uplo(): the triangle of op(A), i.e. the stored one unless the view is
\* (conj-)transposed ("Lower/NoTrans or Upper/Trans" is the forward case).
uplo(stored, op) ==
    IF op = "NoTrans" THEN stored
    ELSE IF stored = "Lower" THEN "Upper" ELSE "Lower"

\* 2-D block-cyclic owner of tile (i, c) on the p x q grid.
tileRank(i, c) == (i % cfg.p) + (c % cfg.q) * cfg.p

tileIsLocal(i, c) == tileRank(i, c) = cfg.me

\* Ranks owning a tile of the submatrix rows i1..i2, columns c1..c2.
SubRanks(i1, i2, c1, c2) == {tileRank(i, c) : i \in i1..i2, c \in c1..c2}

\* ------------------------------------------------------------ driver loop
FirstK_Swapped == IF Forward THEN A_nt - 1 ELSE 0

FirstK == IF Forward THEN 0 ELSE A_nt - 1

NextK(kk) == IF Forward THEN kk + 1 ELSE kk - 1

InRange_OneMore(kk) == IF Forward THEN kk <= A_nt ELSE kk >= 0 - 1

InRange(kk) == IF Forward THEN kk < A_nt ELSE kk >= 0

LookaheadFirst(kk) == IF Forward THEN kk + 1 ELSE kk - 1

LookaheadNext(c) == IF Forward THEN c + 1 ELSE c - 1

LookaheadCond_NoClip(kk, c) ==
    IF Forward THEN c < kk + 1 + lookahead
               ELSE c > kk - 1 - lookahead

LookaheadCond_OffByOne(kk, c) ==
    IF Forward THEN c <= kk + 1 + lookahead /\ c < A_nt
               ELSE c >= kk - 1 - lookahead /\ c >= 0

\* Condition of the lookahead loop.
LookaheadCond(kk, c) ==
    IF Forward THEN c < kk + 1 + lookahead /\ c < A_nt
               ELSE c > kk - 1 - lookahead /\ c >= 0

\* Guard of the trailing update task.
TrailingCond(kk) ==
    IF Forward THEN kk + 1 + lookahead < A_nt
               ELSE kk - 1 - lookahead >= 0

\* Guard of the potrfReleasePanel task (Devices, TileReleaseStrategy::All).
ReleaseCond(kk) == cfg.strategy = "All" /\ lookahead > 0 /\ kk >= lookahead

\* Guard of the potrfCleanTiles task (Devices, TileReleaseStrategy::Slate).
CleanCond == cfg.strategy = "Slate"

\* The statements of one iteration of the driver loop, in source order.
Stages ==
    IF cfg.routine = "potrf"
    THEN IF cfg.target = "Devices"
         THEN <<"panel", "trailing", "lookahead", "release", "clean">>
         ELSE <<"panel", "lookahead", "trailing">>
    ELSE IF cfg.uplo = "Lower"
         THEN <<"panel", "lookahead", "taskwait", "trailing", "cleanup">>
         ELSE <<"panel", "lookahead", "trailing">>

StageGuard(s, kk) ==
    CASE s = "lookahead" -> LookaheadCond(kk, LookaheadFirst(kk))
      [] s = "trailing"  -> TrailingCond(kk)
      [] s = "release"   -> ReleaseCond(kk)
      [] s = "clean"     -> CleanCond
      [] OTHER           -> TRUE

StageIdx(s) == CHOOSE i \in 1..Len(Stages) : Stages[i] = s

\* Position of the master thread after the statement s of iteration kk (the
\* lookahead loop being at column c): the next statement whose guard holds.
NextPos(s, kk, c) ==
    IF s = "lookahead" /\ LookaheadCond(kk, LookaheadNext(c))
    THEN [pc |-> "lookahead", k |-> kk, j |-> LookaheadNext(c)]
    ELSE LET later == {i \in (StageIdx(s) + 1)..Len(Stages) :
                          StageGuard(Stages[i], kk)}
         IN  IF later # {}
             THEN [pc |-> Stages[Min(later)], k |-> kk,
                   j |-> IF Stages[Min(later)] = "lookahead"
                         THEN LookaheadFirst(kk) ELSE kk]
             ELSE IF InRange(NextK(kk))
                  THEN [pc |-> "panel", k |-> NextK(kk), j |-> NextK(kk)]
                  ELSE [pc |-> "end", k |-> NextK(kk), j |-> NextK(kk)]

\* ------------------------------------------------------------------ tasks
\* Tokens of the depend clauses.
PanelInout_None(kk) == {}

PanelInout(kk) == {kk}

LookaheadIn(kk) == {kk}

LookaheadInout_None(c) == {}

LookaheadInout(c) == {c}

TrailingIn(kk) == {kk}

TrailingInout_NextPanelToken(kk) ==
    IF Forward THEN {kk + 1, kk + 1 + lookahead, A_nt - 1}
               ELSE {kk - 1, kk - 1 - lookahead, 0}

TrailingInout_NoLastToken(kk) ==
    IF Forward THEN {kk + 1 + lookahead} ELSE {kk - 1 - lookahead}

TrailingInout_NoNextToken(kk) ==
    IF Forward THEN {A_nt - 1} ELSE {0}

TrailingInout(kk) ==
    IF Forward THEN {kk + 1 + lookahead, A_nt - 1}
               ELSE {kk - 1 - lookahead, 0}

ReleaseIn(kk) == {kk}

ReleaseInout_None(kk) == {}

ReleaseInout(kk) == {kk + 1}

CleanInout(kk) == {kk}

\* Tile columns (potrf) or tile rows of B (trsmA) a task body writes.
LookaheadCols(c) == {c}

TrailingCols_FromPanel(kk) ==
    IF Forward THEN (kk + lookahead)..(A_nt - 1)
               ELSE 0..(kk - lookahead)

TrailingCols(kk) ==
    IF Forward THEN (kk + 1 + lookahead)..(A_nt - 1)
               ELSE 0..(kk - 1 - lookahead)

Priority_HostRule(kind) ==
    IF kind \in {"panel", "lookahead"} THEN 1 ELSE 0

\* priority clause of the task pragma (0 when there is none).
Priority(kind) ==
    IF cfg.routine = "potrf" /\ cfg.target = "Devices" THEN 0
    ELSE IF kind \in {"panel", "lookahead"} THEN 1 ELSE 0

Task(kind, kk, c, din, dinout, rd, wr) ==
    [kind |-> kind, k |-> kk, j |-> c, din |-> din, dinout |-> dinout,
     rd |-> rd, wr |-> wr, prio |-> Priority(kind)]

PanelTask(kk) == Task("panel", kk, kk, {}, PanelInout(kk), {kk}, {kk})

LookaheadTask(kk, c) ==
    Task("lookahead", kk, c, LookaheadIn(kk), LookaheadInout(c),
         {kk}, LookaheadCols(c))

TrailingTask(kk) ==
    Task("trailing", kk, kk, TrailingIn(kk), TrailingInout(kk),
         {kk}, TrailingCols(kk))

\* potrfReleasePanel(A, k - lookahead)
ReleaseTask(kk) ==
    Task("release", kk, kk, ReleaseIn(kk), ReleaseInout(kk),
         {}, {kk - lookahead})

\* potrfCleanTiles(A, k), and the erase task of the forward trsmA sweep
CleanTask(kind, kk) == Task(kind, kk, kk, {}, CleanInout(kk), {}, {kk})

\* OpenMP depend semantics between an earlier sibling t1 and a later one t2.
Conflict(t1, t2) ==
    \/ t1.dinout \cap (t2.din \cup t2.dinout) # {}
    \/ t1.din \cap t2.dinout # {}

Ready(i) == \A h \in 1..(i - 1) : Conflict(tasks[h], tasks[i]) => st[h] = "done"

AllDone == \A i \in 1..Len(tasks) : st[i] = "done"


\* ---------------------------------------------------------- communication
\* One record per communication call of a panel task.  from is the rank that
\* owns the tile being moved (broadcast, send, recv) or that accumulates it
\* (reduce); dest is the set of ranks named on the other side of the call.
Msg(op, kk, i, c, from, dest, tag, life) ==
    [op |-> op, k |-> kk, i |-> i, j |-> c, from |-> from, dest |-> dest,
     tag |-> tag, life |-> life]

\* potrf: send A(k, k) down col A(k+1:nt-1, k)
PotrfTileBcast(kk) ==
    IF kk + 1 <= A_nt - 1
    THEN {Msg("tileBcast", kk, kk, kk, tileRank(kk, kk),
              SubRanks(kk + 1, A_nt - 1, kk, kk), 0, 1)}
    ELSE {}

bcast_list_A_PanelTag(kk) ==
    {Msg("listBcast", kk, i, kk, tileRank(i, kk),
         SubRanks(i, i, kk + 1, i) \cup SubRanks(i, A_nt - 1, i, i), kk, 1) :
       i \in (kk + 1)..(A_nt - 1)}

bcast_list_A_RowOnly(kk) ==
    {Msg("listBcast", kk, i, kk, tileRank(i, kk),
         SubRanks(i, i, kk + 1, i), i, 1) :
       i \in (kk + 1)..(A_nt - 1)}

\* potrf: send A(i, k) across row A(i, k+1:i) and down col A(i:nt-1, i),
\* with msg tag i
bcast_list_A(kk) ==
    {Msg("listBcast", kk, i, kk, tileRank(i, kk),
         SubRanks(i, i, kk + 1, i) \cup SubRanks(i, A_nt - 1, i, i), i, 1) :
       i \in (kk + 1)..(A_nt - 1)}

reduce_list_B_NoOwner(kk) ==
    {Msg("listReduce", kk, kk, c, tileRank(kk, kk),
         IF Forward THEN SubRanks(kk, kk, 0, kk)
                    ELSE SubRanks(kk, kk, kk, A_nt - 1), 0, 0) :
       c \in 0..(cfg.Bnt - 1)}

\* trsmA: gather B(k, :) to the rank owning the diagonal block A(k, k)
reduce_list_B(kk) ==
    {Msg("listReduce", kk, kk, c, tileRank(kk, kk),
         (IF Forward THEN SubRanks(kk, kk, 0, kk)
                     ELSE SubRanks(kk, kk, kk, A_nt - 1))
           \cup SubRanks(kk, kk, c, c), 0, 0) :
       c \in 0..(cfg.Bnt - 1)}

\* trsmA: send the solution back to where it belongs
SolutionSends(kk) ==
    IF tileIsLocal(kk, kk)
    THEN {Msg("tileSend", kk, kk, c, tileRank(kk, kk), {tileRank(kk, c)}, 0, 0) :
            c \in {c \in 0..(cfg.Bnt - 1) :
                     Forward => tileRank(kk, c) # tileRank(kk, kk)}}
    ELSE {Msg("tileRecv", kk, kk, c, tileRank(kk, kk), {cfg.me}, 0, 0) :
            c \in {c \in 0..(cfg.Bnt - 1) : tileIsLocal(kk, c)}}

\* trsmA: bcast the result of the solve, B(k, :), to the ranks owning the
\* block column of A that the updates of step k multiply with
bcast_list_upd_B(kk) ==
    {Msg("listBcast", kk, kk, c, tileRank(kk, c),
         IF Forward THEN SubRanks(kk + 1, A_nt - 1, kk, kk)
                    ELSE SubRanks(0, kk - 1, kk, kk),
         IF Forward THEN kk ELSE 0,
         IF Forward THEN lookahead + 1 ELSE 1) :
       c \in 0..(cfg.Bnt - 1)}

PanelComm(kk) ==
    IF cfg.routine = "potrf"
    THEN PotrfTileBcast(kk) \cup bcast_list_A(kk)
    ELSE reduce_list_B(kk) \cup SolutionSends(kk) \cup bcast_list_upd_B(kk)

\* ----------------------------------------------------------- kernel calls
\* One record per call made by a task body or by the routine around the
\* sweep: the task (kind, step, column), the position of the call in the
\* body, the routine called, the target it is instantiated for and the
\* compute queue it is given (NoValue when the call names none).
Call(kind, kk, c, seq, op, target, queue) ==
    [kind |-> kind, k |-> kk, j |-> c, seq |-> seq, op |-> op,
     target |-> target, queue |-> queue]

\* const int num_queues = 2 + lookahead
num_queues == 2 + lookahead

\* const bool is_shared = lookahead > 0: the panel broadcast of Devices potrf
\* copies the tiles to the devices and sets them on hold.
is_shared == cfg.routine = "potrf" /\ cfg.target = "Devices" /\ lookahead > 0

\* Calls of the panel task of potrf, in source order, as <<op, target, queue>>.
PotrfPanelCalls(kk) ==
    LET dev  == cfg.target = "Devices"
        more == kk + 1 <= A_nt - 1
    IN  <<<<"potrf", "HostTask", NoValue>>>>
        \o (IF more
            THEN <<<<"tileBcast", "none", NoValue>>,
                   IF dev THEN <<"trsm", "Devices", 1>>
                          ELSE <<"trsm", "HostTask", NoValue>>>>
            ELSE <<>>)
        \o <<<<"listBcast", IF dev THEN "Devices" ELSE "none", NoValue>>>>

\* Calls of the panel task of trsmA: gather, solve on the owner of A(k, k),
\* return of the solution, broadcast.
TrsmAPanelCalls(kk) ==
    <<<<"listReduce", cfg.target, NoValue>>>>
    \o (IF tileIsLocal(kk, kk) THEN <<<<"trsmA", cfg.target, 1>>>> ELSE <<>>)
    \o <<<<IF tileIsLocal(kk, kk) THEN "tileSend" ELSE "tileRecv",
           "none", NoValue>>>>
    \o <<<<"listBcast", IF Forward THEN cfg.target ELSE "none", NoValue>>>>

PanelCalls(kk) ==
    IF cfg.routine = "potrf" THEN PotrfPanelCalls(kk) ELSE TrsmAPanelCalls(kk)

ScaleCond_EveryPanel(kk) == cfg.routine = "trsmA" /\ cfg.alpha # 1

\* if (k == 0 && alpha != one), if (k == mt - 1 && alpha != one)
ScaleCond(kk) == cfg.routine = "trsmA" /\ kk = FirstK /\ cfg.alpha # 1

\* The scaling loop at the head of the panel task of trsmA: one call per
\* local tile B(i, c), on the device queue 0 in the forward sweep for
\* Target::Devices and with tile::scale on the host otherwise.
ScaleCalls(kk) ==
    IF ScaleCond(kk)
    THEN LET dev == Forward /\ cfg.target = "Devices"
         IN  {[kind |-> "panel", k |-> kk, j |-> t[2], seq |-> 0,
               op |-> "scale", i |-> t[1],
               target |-> IF dev THEN "Devices" ELSE "HostTask",
               queue |-> IF dev THEN 0 ELSE NoValue] :
                t \in {t \in (0..(A_nt - 1)) \X (0..(cfg.Bnt - 1)) :
                         tileIsLocal(t[1], t[2])}}
    ELSE {}

\* Calls of a lookahead update task: step kk, column (row) c.
LookaheadCalls_TrailingQueue(kk, c) ==
    IF cfg.routine = "potrf"
    THEN LET t == IF cfg.target = "Devices" THEN "Devices" ELSE "HostTask"
             q == IF cfg.target = "Devices" THEN 0 ELSE NoValue
         IN  <<<<"herk", t, q>>>>
             \o (IF c + 1 <= A_nt - 1 THEN <<<<"gemm", t, q>>>> ELSE <<>>)
    ELSE IF Forward THEN <<<<"gemmA", cfg.target, 0>>>>
                    ELSE <<<<"gemmA", "HostTask", NoValue>>>>

LookaheadCalls(kk, c) ==
    IF cfg.routine = "potrf"
    THEN LET t == IF cfg.target = "Devices" THEN "Devices" ELSE "HostTask"
             q == IF cfg.target = "Devices" THEN c - kk + 1 ELSE NoValue
         IN  <<<<"herk", t, q>>>>
             \o (IF c + 1 <= A_nt - 1 THEN <<<<"gemm", t, q>>>> ELSE <<>>)
    ELSE IF Forward THEN <<<<"gemmA", cfg.target, c - kk + 1>>>>
                    ELSE <<<<"gemmA", "HostTask", NoValue>>>>

TrailingCalls_HostTask(kk) ==
    IF cfg.routine = "potrf" THEN <<<<"herk", "HostTask", NoValue>>>>
                             ELSE <<<<"gemmA", "HostTask", NoValue>>>>

\* Calls of the trailing update task of step kk.
TrailingCalls(kk) ==
    IF cfg.routine = "potrf"
    THEN <<<<"herk", cfg.target,
             IF cfg.target = "Devices" THEN 0 ELSE NoValue>>>>
    ELSE IF Forward THEN <<<<"gemmA", cfg.target, 0>>>>
                    ELSE <<<<"gemmA", "HostTask", NoValue>>>>

TaskCalls(t) ==
    LET cs == CASE t.kind = "panel"     -> PanelCalls(t.k)
                [] t.kind = "lookahead" -> LookaheadCalls(t.k, t.j)
                [] t.kind = "trailing"  -> TrailingCalls(t.k)
                [] OTHER                -> <<>>
    IN  {Call(t.kind, t.k, t.j, n, cs[n][1], cs[n][2], cs[n][3]) :
           n \in 1..Len(cs)}
        \cup (IF t.kind = "panel" THEN ScaleCalls(t.k) ELSE {})

\* Devices potrf reserves its batch arrays and device workspace before the
\* sweep; queue holds the number of queues asked for.
SetupCalls ==
    IF cfg.routine = "potrf" /\ cfg.target = "Devices"
    THEN {Call("setup", FirstK, FirstK, 1, "allocateBatchArrays", "Devices",
               num_queues),
          Call("setup", FirstK, FirstK, 2, "reserveDeviceWorkspace", "Devices",
               NoValue)}
    ELSE {}

\* potrf copies every modified instance back to its origin and releases
\* the workspace after the sweep.
TeardownCalls ==
    IF cfg.routine = "potrf"
    THEN {Call("teardown", A_nt, A_nt, 1, "tileUpdateAllOrigin", cfg.target,
               NoValue),
          Call("teardown", A_nt, A_nt, 2, "releaseWorkspace", cfg.target,
               NoValue)}
    ELSE {}

\* A call on tile (i, kk) of the panel column, or on row kk of B, made by a
\* cleanup task.
TileCall(kind, kk, i, seq, op) == Call(kind, kk, i, seq, op, "none", NoValue)

\* potrfCleanTiles(A, kk): for i = kk..nt-1, tileUpdateOrigin if A(i, kk) is
\* local, then tileUnsetHold and tileRelease.
potrfCleanTiles(kk) ==
    UNION {{TileCall("clean", kk, i, 3 * (i - kk) + 2, "tileUnsetHold"),
            TileCall("clean", kk, i, 3 * (i - kk) + 3, "tileRelease")}
           \cup (IF tileIsLocal(i, kk)
                 THEN {TileCall("clean", kk, i, 3 * (i - kk) + 1,
                                "tileUpdateOrigin")}
                 ELSE {}) :
           i \in kk..(A_nt - 1)}

potrfReleasePanel_ReleaseFirst(kk) ==
    UNION {{TileCall("release", kk, i, 3 * (i - kk) + 3, "tileUpdateOrigin"),
            TileCall("release", kk, i, 3 * (i - kk) + 1, "tileUnsetHold"),
            TileCall("release", kk, i, 3 * (i - kk) + 2, "tileRelease")} :
           i \in {i \in (kk + 1)..(A_nt - 1) : tileIsLocal(i, kk)}}

\* potrfReleasePanel(A, kk): for i = kk+1..nt-1 with A(i, kk) local,
\* tileUpdateOrigin, then tileUnsetHold and tileRelease on the devices.
potrfReleasePanel(kk) ==
    UNION {{TileCall("release", kk, i, 3 * (i - kk) + 1, "tileUpdateOrigin"),
            TileCall("release", kk, i, 3 * (i - kk) + 2, "tileUnsetHold"),
            TileCall("release", kk, i, 3 * (i - kk) + 3, "tileRelease")} :
           i \in {i \in (kk + 1)..(A_nt - 1) : tileIsLocal(i, kk)}}

\* The erase task of the forward trsmA sweep.
EraseCalls(kk) ==
    {TileCall("cleanup", kk, kk, 1, "A_col_k.eraseRemoteWorkspace"),
     TileCall("cleanup", kk, kk, 2, "A_col_k.eraseLocalWorkspace"),
     TileCall("cleanup", kk, kk, 3, "B_row_k.eraseRemoteWorkspace"),
     TileCall("cleanup", kk, kk, 4, "B_row_k.tileUpdateAllOrigin"),
     TileCall("cleanup", kk, kk, 5, "B_row_k.eraseLocalWorkspace")}

CleanupCalls(t) ==
    CASE t.kind = "clean"   -> potrfCleanTiles(t.k)
      [] t.kind = "release" -> potrfReleasePanel(t.k - lookahead)
      [] OTHER              -> EraseCalls(t.k)

\* ------------------------------------------------- tile instances of B
\* reg.live holds the non-origin instances of tiles of B that exist on this
\* process in trsmA, each with its life count; reg.freed holds the instances
\* that were erased or released, with the life count they ended with.
\* The field sum of an instance is the set of steps whose update term has
\* been added to it since it was last set to zero; reg.solved holds, for
\* every panel this process solved, what its accumulators of the row held
\* when they went into the reduction.
Exists(R, i, c) == \E t \in R.live : t.i = i /\ t.j = c

NonLocalCols(i) == {c \in 0..(cfg.Bnt - 1) : ~tileIsLocal(i, c)}

numLocalTiles(i1, i2, c1, c2) ==
    Cardinality({t \in (i1..i2) \X (c1..c2) : tileIsLocal(t[1], t[2])})

\* life_factor argument of trsmA's listBcast of the solved row.
BcastLife == IF Forward THEN lookahead + 1 ELSE 1

\* tileInsert + set(0, 0) of every tile of rows that is neither local nor
\* present: the accumulators of the partial sums.
InsertRows_Rezero(R, rows) ==
    LET new == {t \in rows \X (0..(cfg.Bnt - 1)) : ~tileIsLocal(t[1], t[2])}
    IN  [R EXCEPT !.live =
            {t \in @ : <<t.i, t.j>> \notin new}
            \cup {[i |-> t[1], j |-> t[2], life |-> 0, sum |-> {}] :
                    t \in new}]

InsertRows(R, rows) ==
    [R EXCEPT !.live = @ \cup
        {[i |-> t[1], j |-> t[2], life |-> 0, sum |-> {}] :
           t \in {t \in rows \X (0..(cfg.Bnt - 1)) :
                    ~tileIsLocal(t[1], t[2]) /\ ~Exists(R, t[1], t[2])}}]

\* gemmA of step kk adds its term to the instances of the rows in rows.
Accumulate(R, rows, kk) ==
    [R EXCEPT !.live = {IF t.i \in rows THEN [t EXCEPT !.sum = @ \cup {kk}]
                                        ELSE t : t \in @}]

\* The accumulators of row kk as they enter the reduction of panel kk.
Snapshot(R, kk) ==
    [R EXCEPT !.solved = @ \cup {[i |-> t.i, j |-> t.j, sum |-> t.sum] :
                                   t \in {t \in R.live : t.i = kk}}]

\* Every non-local instance of row i is erased (released).
EraseRow(R, i) ==
    [live |-> {t \in R.live : t.i # i},
     freed |-> R.freed \cup {t \in R.live : t.i = i},
     solved |-> R.solved]

\* listBcast of B(k, :) as seen by a rank of the destination set: the
\* instance is created, or its life extended, by life_factor times the
\* number of local tiles of the destination region.
ReceiveRow(R, kk) ==
    LET n == IF Forward THEN numLocalTiles(kk + 1, A_nt - 1, kk, kk)
                        ELSE numLocalTiles(0, kk - 1, kk, kk)
        old(c) == IF Exists(R, kk, c)
                  THEN (CHOOSE t \in R.live : t.i = kk /\ t.j = c).life
                  ELSE 0
    IN  IF n = 0 THEN R
        ELSE [R EXCEPT !.live =
                {t \in @ : t.i # kk} \cup
                {[i |-> kk, j |-> c, life |-> old(c) + n * BcastLife,
                  sum |-> {}] :
                   c \in NonLocalCols(kk)}]

\* n tile kernels consumed B(k, :): each decrements the life of the
\* instance, which is erased when the count reaches zero.
TickRow(R, kk, n) ==
    LET row  == {t \in R.live : t.i = kk}
        gone == {t \in row : t.life > 0 /\ t.life - n <= 0}
    IN  [live  |-> (R.live \ row) \cup
                   {[t EXCEPT !.life = @ - n] : t \in row \ gone},
         freed |-> R.freed \cup {[t EXCEPT !.life = 0] : t \in gone},
         solved |-> R.solved]

\* Registry effect of the panel task of step kk.
PanelReg(R, kk) ==
    LET R0 == IF tileIsLocal(kk, kk) THEN InsertRows(R, {kk}) ELSE R
        R1 == Snapshot(R0, kk)
        R2 == IF Forward THEN R1 ELSE EraseRow(R1, kk)
    IN  IF cfg.routine = "trsmA" THEN ReceiveRow(R2, kk) ELSE R

\* Registry effect of an update task of step kk on the rows in rows: gemmA
\* runs where A(r, kk) is local.
UpdateReg(R, kk, rows) ==
    LET mine == {r \in rows : tileIsLocal(r, kk)}
    IN  IF cfg.routine = "trsmA"
        THEN TickRow(Accumulate(InsertRows(R, mine), mine, kk), kk,
                     Cardinality(mine))
        ELSE R

\* Registry effect of the erase task of the forward sweep.
CleanupReg(R, kk) == IF cfg.routine = "trsmA" THEN EraseRow(R, kk) ELSE R

\* Rows whose instances the final loop releases: the rows of A of which
\* this process owns a tile.
FinalRows == {i \in 0..(A_nt - 1) : \E c \in 0..(A_nt - 1) : tileIsLocal(i, c)}

FinalReg(R) ==
    IF cfg.routine = "trsmA"
    THEN [live  |-> {t \in R.live : t.i \notin FinalRows},
          freed |-> R.freed \cup {t \in R.live : t.i \in FinalRows},
          solved |-> R.solved]
    ELSE R

\* ------------------------------------------------------ initial condition
Grids(P, Q) ==
    {g \in [p : 1..P, q : 1..Q, me : 0..(P * Q - 1)] : g.me < g.p * g.q}

PotrfConfigs(NT, LA, G) ==
    {[routine |-> "potrf", target |-> ts[1], strategy |-> ts[2],
      uplo |-> "Lower", nt |-> n, Bnt |-> n, lookahead |-> la,
      p |-> g.p, q |-> g.q, me |-> g.me, n |-> 0] :
       ts \in {<<"HostTask", "All">>, <<"Devices", "All">>,
               <<"Devices", "Slate">>},
       n \in 1..NT, la \in 0..LA, g \in G}

TrsmAConfigs(NT, LA, BN, G) ==
    {[routine |-> "trsmA", target |-> "HostTask", strategy |-> "Slate",
      uplo |-> ul[1], nt |-> n, Bnt |-> ul[2], lookahead |-> la,
      p |-> g.p, q |-> g.q, me |-> g.me, n |-> 0, alpha |-> 1] :
       ul \in {"Lower", "Upper"} \X (1..BN),
       n \in 1..NT, la \in 0..LA, g \in G}

\* trsmA for every side, operand transform, stored triangle and target.
TrsmAVariants(NT, LA) ==
    {[routine |-> "trsmA", target |-> v[4], strategy |-> "Slate",
      uplo |-> uplo(v[3], SideOp(v[1], v[2])), nt |-> n, Bnt |-> 1,
      lookahead |-> la, p |-> 1, q |-> 1, me |-> 0, n |-> 0, alpha |-> 1,
      side |-> v[1], op |-> v[2], stored |-> v[3]] :
       v \in {"Left", "Right"} \X {"NoTrans", "Trans", "ConjTrans"}
              \X {"Lower", "Upper"}
              \X {"HostTask", "HostNest", "HostBatch", "Devices"},
       n \in 1..NT, la \in 0..LA}

\* Host potrf instantiated for the other host targets.
PotrfVariants(NT, LA) ==
    {[c EXCEPT !.target = t] :
       c \in {c \in PotrfConfigs(NT, LA, Grids(1, 1)) : c.target = "HostTask"},
       t \in {"HostNest", "HostBatch"}}

\* trsmA on a process grid with a scaling factor alpha.
ScaledConfigs ==
    {[c EXCEPT !.alpha = a] :
       c \in TrsmAConfigs(VarMaxNt, VarMaxLookahead, MaxBnt,
                          Grids(MaxP, MaxQ)),
       a \in 1..MaxAlpha}

GesvConfigs ==
    {[routine |-> "gesv", target |-> "HostTask", strategy |-> "All",
      uplo |-> "Lower", nt |-> 1, Bnt |-> 1, lookahead |-> 1,
      p |-> 1, q |-> 1, me |-> 0, n |-> n, nb |-> nb] :
       n \in 1..MaxN, nb \in 1..MaxNb}

\* The state of the LAPACK interface before a call: nothing extracted, the
\* caller's ipiv array of dimension n not yet written.
LapackInit ==
    /\ pivots = <<>>
    /\ ipiv = IF cfg.routine = "gesv"
              THEN [r \in 0..(cfg.n - 1) |-> NoValue] ELSE <<>>
    /\ p_count = NoValue
    /\ t_iter_add = NoValue
    /\ t_iter = NoValue
    /\ p_iter = NoValue
    /\ num_blas_threads \in IF cfg.routine = "gesv" THEN 1..MaxThreads ELSE {1}
    /\ saved_num_blas_threads = NoValue

Start0 ==
    /\ pc = IF cfg.routine = "gesv" THEN "gesv" ELSE "panel"
    /\ k = FirstK
    /\ j = FirstK
    /\ tasks = <<>>
    /\ st = <<>>
    /\ hist = [c \in 0..(A_nt - 1) |-> <<>>]
    /\ kernel_info = 0
    /\ retval = NoValue
    /\ comm = {}
    /\ info = NoValue
    /\ reg = [live |-> {}, freed |-> {}, solved |-> {}]
    /\ ops = SetupCalls
    /\ Adata = <<>>
    /\ Bdata = <<>>
    /\ layout = <<>>
    /\ Qout = "unset"
    /\ Dout = "unset"
    /\ caller = <<>>
    /\ args = <<>>
    /\ LapackInit

\* A run on a single process.
Init ==
    /\ cfg \in PotrfConfigs(MaxNt, MaxLookahead, Grids(1, 1))
              \cup TrsmAConfigs(MaxNt, MaxLookahead, 1, Grids(1, 1))
              \cup GesvConfigs
    /\ Start0

\* A run observed on one rank of a p x q process grid.
GridInit ==
    /\ cfg \in PotrfConfigs(GridMaxNt, GridMaxLookahead, Grids(MaxP, MaxQ))
              \cup TrsmAConfigs(GridMaxNt, GridMaxLookahead, MaxBnt,
                                Grids(MaxP, MaxQ))
              \cup GesvConfigs
    /\ Start0

\* A run of any variant of the sweeps on a single process.
VariantInit ==
    /\ cfg \in PotrfConfigs(VarMaxNt, VarMaxLookahead, Grids(1, 1))
              \cup PotrfVariants(VarMaxNt, VarMaxLookahead)
              \cup TrsmAVariants(VarMaxNt, VarMaxLookahead)
              \cup GesvConfigs
    /\ Start0

\* A run of trsmA with a scaling factor, observed on one rank of a grid.
ScaleInit ==
    /\ cfg \in ScaledConfigs
              \cup PotrfConfigs(VarMaxNt, VarMaxLookahead, Grids(1, 1))
              \cup GesvConfigs
    /\ Start0

\* ---------------------------------------------------- master-thread steps
Goto(pos) == pc' = pos.pc /\ k' = pos.k /\ j' = pos.j

Submit(t) ==
    /\ tasks' = Append(tasks, t)
    /\ st' = Append(st, "waiting")
    /\ Goto(NextPos(pc, k, j))
    /\ UNCHANGED <<cfg, hist, kernel_info, retval, comm, info, reg, ops>>
    /\ UNCHANGED unit
    /\ UNCHANGED lapack

SubmitPanel == pc = "panel" /\ Submit(PanelTask(k))

SubmitLookahead == pc = "lookahead" /\ Submit(LookaheadTask(k, j))

SubmitTrailing == pc = "trailing" /\ Submit(TrailingTask(k))

SubmitRelease == pc = "release" /\ Submit(ReleaseTask(k))

SubmitClean == pc = "clean" /\ Submit(CleanTask("clean", k))

SubmitCleanup == pc = "cleanup" /\ Submit(CleanTask("cleanup", k))

\* #pragma omp taskwait between the lookahead and the trailing update of the
\* forward trsmA sweep
TaskWait ==
    /\ pc = "taskwait"
    /\ AllDone
    /\ Goto(NextPos(pc, k, j))
    /\ UNCHANGED <<cfg, tasks, st, hist, kernel_info, retval, comm, info, reg, ops>>
    /\ UNCHANGED unit
    /\ UNCHANGED lapack

\* End of the sweep: every task has finished (end of the parallel region of
\* potrf, taskwait of Devices potrf and of trsmA); the routine returns
\* without a value.
Return ==
    /\ pc = "end"
    /\ AllDone
    /\ pc' = "done"
    /\ retval' = NoValue
    /\ reg' = FinalReg(reg)
    /\ ops' = ops \cup TeardownCalls
    /\ UNCHANGED <<cfg, k, j, tasks, st, hist, kernel_info, comm, info>>
    /\ UNCHANGED unit
    /\ UNCHANGED lapack

\* -------------------------------------------------------------- task steps
Start(i) ==
    /\ st[i] = "waiting"
    /\ Ready(i)
    /\ st' = [st EXCEPT ![i] = "running"]
    /\ UNCHANGED <<cfg, pc, k, j, tasks, hist, kernel_info, retval, comm, info, reg, ops>>
    /\ UNCHANGED unit
    /\ UNCHANGED lapack

\* The kernel operation e is applied to every tile column (row) in cols.
Apply(cols, e) ==
    [c \in DOMAIN hist |-> IF c \in cols THEN Append(hist[c], e) ELSE hist[c]]

\* Results the diagonal-tile kernel of a panel can report: 0, or the order
\* 1..nb of the leading minor of the tile that is not positive definite.
\* The trsmA panel kernels report nothing.
KernelResults == IF cfg.routine = "potrf" THEN 0..TileNb ELSE {0}

\* Panel body.  The result of internal::potrf is not looked at by the
\* code; kernel_info remembers the first failure, as a global index.
FinishPanel(i) ==
    /\ st[i] = "running"
    /\ tasks[i].kind = "panel"
    /\ st' = [st EXCEPT ![i] = "done"]
    /\ \E r \in KernelResults :
         kernel_info' = IF kernel_info = 0 /\ r > 0
                        THEN tasks[i].k * TileNb + r ELSE kernel_info
    /\ hist' = Apply(tasks[i].wr, <<"panel", tasks[i].k>>)
    /\ comm' = comm \cup PanelComm(tasks[i].k)
    /\ reg' = PanelReg(reg, tasks[i].k)
    /\ ops' = ops \cup TaskCalls(tasks[i])
    /\ UNCHANGED <<cfg, pc, k, j, tasks, retval, info>>
    /\ UNCHANGED unit
    /\ UNCHANGED lapack

\* Lookahead and trailing update bodies.
FinishUpdate(i) ==
    /\ st[i] = "running"
    /\ tasks[i].kind \in {"lookahead", "trailing"}
    /\ st' = [st EXCEPT ![i] = "done"]
    /\ hist' = Apply(tasks[i].wr, <<"update", tasks[i].k>>)
    /\ reg' = UpdateReg(reg, tasks[i].k, tasks[i].wr)
    /\ ops' = ops \cup TaskCalls(tasks[i])
    /\ UNCHANGED <<cfg, pc, k, j, tasks, kernel_info, retval, comm, info>>
    /\ UNCHANGED unit
    /\ UNCHANGED lapack

\* potrfReleasePanel, potrfCleanTiles and the erase task of trsmA.
FinishCleanup(i) ==
    /\ st[i] = "running"
    /\ tasks[i].kind \in {"release", "clean", "cleanup"}
    /\ st' = [st EXCEPT ![i] = "done"]
    /\ reg' = CleanupReg(reg, tasks[i].k)
    /\ ops' = ops \cup CleanupCalls(tasks[i])
    /\ UNCHANGED <<cfg, pc, k, j, tasks, hist, kernel_info, retval, comm, info>>
    /\ UNCHANGED unit
    /\ UNCHANGED lapack

\* -------------------------------------------------------------- slate_gesv
\* Number of rows of tile-row t of an n x n matrix with tile size nb.
tileMb(t, n, nb) == IF (t + 1) * nb <= n THEN nb ELSE n - t * nb

\* Number of tile-rows of an n x n matrix with tile size nb.
A_mt(n, nb) == (n + nb - 1) \div nb

\* The Pivots structures of an LU factorization with partial pivoting of an
\* n x n matrix: one list per tile-row t, one pivot per row of that
\* tile-row; the pivot of row r names a row g >= r of the matrix by the
\* index of its tile counted from tile-row t and its offset in that tile.
Pivots(n, nb) ==
    {[t \in 1..A_mt(n, nb) |->
        [i \in 1..tileMb(t - 1, n, nb) |->
            LET g == f[(t - 1) * nb + i - 1]
            IN  [tileIndex     |-> (g \div nb) - (t - 1),
                 elementOffset |-> g % nb]]] :
       f \in {f \in [0..(n - 1) -> 0..(n - 1)] :
                 \A r \in 0..(n - 1) : f[r] >= r}}

\* slate_lapack_set_num_blas_threads(nt): sets the count, returns the old one.
\* saved_num_blas_threads = slate_lapack_set_num_blas_threads(1);
\* slate::gesv is called as a statement.  kernel_info remembers what the
\* factorization found: 0, or the index 1..n of the first zero pivot.
\* The action ends at the head of the extraction loop.
GesvSolve ==
    /\ pc = "gesv"
    /\ saved_num_blas_threads' = num_blas_threads
    /\ num_blas_threads' = 1
    /\ \E r \in 0..cfg.n : kernel_info' = r
    /\ pivots' \in Pivots(cfg.n, cfg.nb)
    /\ p_count' = 0
    /\ t_iter_add' = 0
    /\ t_iter' = 0
    /\ p_iter' = 0
    /\ pc' = "extract"
    /\ UNCHANGED <<cfg, k, j, tasks, st, hist, retval, comm, info, reg, ops>>
    /\ UNCHANGED ipiv
    /\ UNCHANGED unit

\* Variant: the tile-row offset is left out of the entry.
IpivEntry_NoTileRow(pv, nb, add) == pv.tileIndex * nb + pv.elementOffset + 1

\* p_iter->tileIndex() * nb + p_iter->elementOffset() + 1 + t_iter_add
IpivEntry(pv, nb, add) == pv.tileIndex * nb + pv.elementOffset + 1 + add

\* One pass of the inner loop: ipiv[p_count] = ...;  p_count++
GesvExtract ==
    /\ pc = "extract"
    /\ t_iter < Len(pivots)
    /\ p_iter < Len(pivots[t_iter + 1])
    /\ ipiv' = [ipiv EXCEPT ![p_count] =
                   IpivEntry(pivots[t_iter + 1][p_iter + 1], cfg.nb, t_iter_add)]
    /\ p_count' = p_count + 1
    /\ p_iter' = p_iter + 1
    /\ UNCHANGED <<cfg, pc, k, j, tasks, st, hist, kernel_info, retval, comm,
                   info, reg, ops>>
    /\ UNCHANGED <<pivots, t_iter_add, t_iter, num_blas_threads,
                   saved_num_blas_threads>>
    /\ UNCHANGED unit

\* End of the inner loop: t_iter_add += nb;  ++t_iter
GesvNextTile ==
    /\ pc = "extract"
    /\ t_iter < Len(pivots)
    /\ p_iter = Len(pivots[t_iter + 1])
    /\ t_iter_add' = t_iter_add + cfg.nb
    /\ t_iter' = t_iter + 1
    /\ p_iter' = 0
    /\ UNCHANGED <<cfg, pc, k, j, tasks, st, hist, kernel_info, retval, comm,
                   info, reg, ops>>
    /\ UNCHANGED <<pivots, ipiv, p_count, num_blas_threads,
                   saved_num_blas_threads>>
    /\ UNCHANGED unit

\* slate_lapack_set_num_blas_threads(saved_num_blas_threads)
RestoreThreads == saved_num_blas_threads

\* End of the outer loop; the thread count is put back;
\* todo: get a real value for info;  *info = 0
GesvReturn ==
    /\ pc = "extract"
    /\ t_iter = Len(pivots)
    /\ num_blas_threads' = RestoreThreads
    /\ info' = 0
    /\ pc' = "done"
    /\ UNCHANGED <<cfg, k, j, tasks, st, hist, kernel_info, retval, comm, reg, ops>>
    /\ UNCHANGED <<pivots, ipiv, p_count, t_iter_add, t_iter, p_iter,
                   saved_num_blas_threads>>
    /\ UNCHANGED unit

Next ==
    \/ SubmitPanel
    \/ SubmitLookahead
    \/ SubmitTrailing
    \/ SubmitRelease
    \/ SubmitClean
    \/ SubmitCleanup
    \/ TaskWait
    \/ Return
    \/ \E i \in 1..Len(tasks) : Start(i)
    \/ \E i \in 1..Len(tasks) : FinishPanel(i)
    \/ \E i \in 1..Len(tasks) : FinishUpdate(i)
    \/ \E i \in 1..Len(tasks) : FinishCleanup(i)
    \/ GesvSolve
    \/ GesvExtract
    \/ GesvNextTile
    \/ GesvReturn

Spec == Init /\ [][Next]_vars

GridSpec == GridInit /\ [][Next]_vars

VariantSpec == VariantInit /\ [][Next]_vars

ScaleSpec == ScaleInit /\ [][Next]_vars

\* The OpenMP runtime runs every ready task, every task body returns and the
\* master thread is never starved.
FairSpec == Spec /\ WF_vars(Next)

\* One schedule of the runtime: a ready task starts as soon as a thread takes
\* it, and with lookahead the thread that takes the panel of a step does so
\* once the trailing update of the step before is running; panel, lookahead
\* and cleanup bodies are short and return before the master thread submits
\* more; the trailing update is the long body and returns only when nothing
\* else can proceed.
PrevK(kk) == IF Forward THEN kk - 1 ELSE kk + 1

Taken(i) ==
    (/\ tasks[i].kind = "panel" /\ lookahead >= 1
     /\ PrevK(tasks[i].k) \in 0..(A_nt - 1)
     /\ TrailingCond(PrevK(tasks[i].k)))
        => \E a \in 1..Len(tasks) :
              /\ tasks[a].kind = "trailing" /\ tasks[a].k = PrevK(tasks[i].k)
              /\ st[a] = "running"

CanStart ==
    \E i \in 1..Len(tasks) : st[i] = "waiting" /\ Ready(i) /\ Taken(i)

ShortRunning ==
    \E i \in 1..Len(tasks) : st[i] = "running" /\ tasks[i].kind # "trailing"

MasterCan ==
    \/ pc \in {"panel", "lookahead", "trailing", "release", "clean", "cleanup"}
    \/ pc \in {"taskwait", "end"} /\ AllDone

Idle == ~CanStart /\ ~ShortRunning

EagerInit ==
    /\ cfg \in PotrfConfigs(MaxNt, MaxLookahead, Grids(1, 1))
              \cup TrsmAConfigs(MaxNt, MaxLookahead, 1, Grids(1, 1))
    /\ Start0

EagerNext ==
    \/ \E i \in 1..Len(tasks) : Taken(i) /\ Start(i)
    \/ ~CanStart /\ \E i \in 1..Len(tasks) : FinishPanel(i)
    \/ ~CanStart /\ \E i \in 1..Len(tasks) :
                       tasks[i].kind = "lookahead" /\ FinishUpdate(i)
    \/ ~CanStart /\ \E i \in 1..Len(tasks) : FinishCleanup(i)
    \/ Idle /\ SubmitPanel
    \/ Idle /\ SubmitLookahead
    \/ Idle /\ SubmitTrailing
    \/ Idle /\ SubmitRelease
    \/ Idle /\ SubmitClean
    \/ Idle /\ SubmitCleanup
    \/ Idle /\ TaskWait
    \/ Idle /\ Return
    \/ Idle /\ ~MasterCan /\ \E i \in 1..Len(tasks) :
                               tasks[i].kind = "trailing" /\ FinishUpdate(i)

EagerSpec == EagerInit /\ [][EagerNext]_vars /\ WF_vars(EagerNext)

\* ------------------------------------------------------------------ trnorm
Norms == {"Max", "One", "Inf", "Fro"}

\* Variant: a value matching no case is treated like an absent option.
TrnormTarget_Default(t) ==
    CASE t \in {"Unset", "Host", "HostTask"} -> "HostTask"
      [] t \in {"HostBatch", "HostNest"}     -> "HostNest"
      [] t = "Devices"                       -> "Devices"
      [] OTHER                               -> "HostTask"

\* Target the switch of slate::trnorm instantiates for the option value
\* (an absent option means HostTask); "none" when no case matches.
TrnormTarget(t) ==
    CASE t \in {"Unset", "Host", "HostTask"} -> "HostTask"
      [] t \in {"HostBatch", "HostNest"}     -> "HostNest"
      [] t = "Devices"                       -> "Devices"
      [] OTHER                               -> "none"

TrnormCall(seq, op) ==
    Call("trnorm", 0, 0, seq, op, TrnormTarget(cfg.target), NoValue)

\* slate::trnorm: the switch over the target.
TrnormDispatch ==
    /\ pc = "trnorm"
    /\ pc' = IF TrnormTarget(cfg.target) = "none" THEN "thrown" ELSE "norm"
    /\ UNCHANGED <<cfg, retval, ops>>
    /\ UNCHANGED sweep
    /\ UNCHANGED unit
    /\ UNCHANGED lapack

\* internal::specialization::trnorm: the chain of tests on the norm.
TrnormSelect ==
    /\ pc = "norm"
    /\ pc' = IF cfg.norm \in Norms THEN "reserve" ELSE "thrown"
    /\ UNCHANGED <<cfg, retval, ops>>
    /\ UNCHANGED sweep
    /\ UNCHANGED unit
    /\ UNCHANGED lapack

\* if (target == Target::Devices) A.reserveDeviceWorkspace();
TrnormReserve ==
    /\ pc = "reserve"
    /\ ops' = IF TrnormTarget(cfg.target) = "Devices"
              THEN ops \cup {TrnormCall(1, "reserveDeviceWorkspace")}
              ELSE ops
    /\ pc' = "local_norm"
    /\ UNCHANGED <<cfg, retval>>
    /\ UNCHANGED sweep
    /\ UNCHANGED unit
    /\ UNCHANGED lapack

\* internal::trnorm<target>(norm, diag, A, local values): the local value
\* depends on the tiles this process owns.
TrnormKernel ==
    /\ pc = "local_norm"
    /\ ops' = ops \cup {TrnormCall(2, "trnorm")}
    /\ \E v \in {"zero", "nonzero", "nan"} : kernel_info' = v
    /\ pc' = "allreduce"
    /\ UNCHANGED <<cfg, retval, k, j, tasks, st, hist, comm, info, reg>>
    /\ UNCHANGED unit
    /\ UNCHANGED lapack

TrnormMpi_NoFree(norm) ==
    IF norm = "Max"
    THEN <<<<"MPI_Op_create", "op_max_nan", "none">>,
           <<"MPI_Allreduce", "op_max_nan", "A.mpiComm">>>>
    ELSE <<<<"MPI_Allreduce", "MPI_SUM", "A.mpiComm">>>>

\* MPI calls of the branch of a norm, in source order, as
\* <<routine, reduction operator, communicator>>.
TrnormMpi(norm) ==
    IF norm = "Max"
    THEN <<<<"MPI_Op_create", "op_max_nan", "none">>,
           <<"MPI_Allreduce", "op_max_nan", "A.mpiComm">>,
           <<"MPI_Op_free", "op_max_nan", "none">>>>
    ELSE <<<<"MPI_Allreduce", "MPI_SUM", "A.mpiComm">>>>

\* The n-th MPI call of trnorm, made inside #pragma omp critical(slate_mpi).
MpiCall(n) ==
    [kind |-> "mpi", seq |-> 2 + n, op |-> TrnormMpi(cfg.norm)[n][1],
     rop |-> TrnormMpi(cfg.norm)[n][2], mpicomm |-> TrnormMpi(cfg.norm)[n][3],
     critical |-> "slate_mpi"]

\* The thread enters the critical section slate_mpi and issues its next MPI
\* call; j counts the calls that have returned, comm holds the call in
\* progress.
TrnormMpiEnter ==
    /\ pc = "allreduce"
    /\ comm = {}
    /\ comm' = {MpiCall(j + 1)}
    /\ pc' = "in_mpi"
    /\ UNCHANGED <<cfg, retval, ops, k, j, tasks, st, hist, kernel_info,
                   info, reg>>
    /\ UNCHANGED unit
    /\ UNCHANGED lapack

\* The MPI call returns and the thread leaves the critical section.
TrnormMpiLeave ==
    /\ pc = "in_mpi"
    /\ ops' = ops \cup comm
    /\ comm' = {}
    /\ j' = j + 1
    /\ pc' = IF j + 1 < Len(TrnormMpi(cfg.norm)) THEN "allreduce" ELSE "clear"
    /\ UNCHANGED <<cfg, retval, k, tasks, st, hist, kernel_info, info, reg>>
    /\ UNCHANGED unit
    /\ UNCHANGED lapack

\* A.clearWorkspace(); return of the norm (a value >= 0, here 0)
TrnormReturn ==
    /\ pc = "clear"
    /\ ops' = ops \cup {TrnormCall(3 + Len(TrnormMpi(cfg.norm)),
                                   "clearWorkspace")}
    /\ retval' = 0
    /\ pc' = "done"
    /\ UNCHANGED cfg
    /\ UNCHANGED sweep
    /\ UNCHANGED unit
    /\ UNCHANGED lapack

\* A thrown exception leaves the routine; a caller that has a handler for
\* it catches it and goes on ...
Caught ==
    /\ pc = "thrown"
    /\ pc' = "caught"
    /\ UNCHANGED <<cfg, retval, ops>>
    /\ UNCHANGED sweep
    /\ UNCHANGED unit
    /\ UNCHANGED lapack

\* ... and with no handler anywhere the process is terminated.
Terminated ==
    /\ pc = "thrown"
    /\ pc' = "terminated"
    /\ UNCHANGED <<cfg, retval, ops>>
    /\ UNCHANGED sweep
    /\ UNCHANGED unit
    /\ UNCHANGED lapack

\* ------------------------------------------------------------------- stedc
\* Entries of D and E by class: zero; finite and non-zero, below the safe
\* minimum (tiny), ordinary (nonzero) or above the safe maximum (huge);
\* infinite; NaN.
Entries == {"zero", "tiny", "nonzero", "huge", "inf", "nan"}

\* lapack::lanst(Norm::Max, n, D, E): class of the largest absolute value;
\* a NaN entry makes the norm NaN.
lanst(d, e) ==
    LET vals == {d[i] : i \in DOMAIN d} \cup {e[i] : i \in DOMAIN e}
    IN  IF "nan" \in vals THEN "nan"
        ELSE IF "inf" \in vals THEN "inf"
        ELSE IF "huge" \in vals THEN "huge"
        ELSE IF "nonzero" \in vals THEN "nonzero"
        ELSE IF "tiny" \in vals THEN "tiny"
        ELSE "zero"

Anorm == lanst(cfg.D, cfg.E)

\* One call made by stedc: its position, the routine, the object it works
\* on and, for lascl, the factors cfrom and cto.
StedcCall(seq, op, obj, cfrom, cto) ==
    [seq |-> seq, op |-> op, obj |-> obj, cfrom |-> cfrom, cto |-> cto]

\* Variant: scale as steqr does, only if Anorm > sfmax or Anorm < sfmin.
StedcScales_Conditional == Anorm \in {"tiny", "huge"}

\* "stedc always scales": every norm that passed the two tests above.
StedcScales == Anorm \notin {"zero", "inf", "nan"}

\* Lines 63-79: lascl of D and E, workspaces W and U, W = Identity,
\* stedc_solve( D, E, W, Q, U ), stedc_sort( D, W, Q ).
StedcBody ==
    (IF StedcScales
     THEN {StedcCall(1, "lascl", "D", "Anorm", "one"),
           StedcCall(2, "lascl", "E", "Anorm", "one")}
     ELSE {})
    \cup {StedcCall(3, "insertLocalTiles", "W", "none", "none"),
          StedcCall(4, "insertLocalTiles", "U", "none", "none"),
          StedcCall(5, "set_identity", "W", "none", "none"),
          StedcCall(6, "stedc_solve", "W", "none", "none"),
          StedcCall(7, "stedc_sort", "Q", "none", "none")}

\* Line 87: scale eigenvalues back.
StedcScaleBack ==
    IF StedcScales THEN {StedcCall(8, "lascl", "D", "one", "Anorm")} ELSE {}

\* if (Anorm == zero) return;
StedcZero ==
    /\ pc = "stedc"
    /\ Anorm = "zero"
    /\ pc' = "done"
    /\ UNCHANGED <<cfg, retval, ops>>
    /\ UNCHANGED sweep
    /\ UNCHANGED unit
    /\ UNCHANGED lapack

\* Variant: the test for Inf and NaN follows the scaling of D and E.
StedcNonFinite_AfterScaling ==
    /\ pc = "stedc"
    /\ Anorm \in {"inf", "nan"}
    /\ pc' = "thrown"
    /\ ops' = {StedcCall(1, "lascl", "D", "Anorm", "one"),
               StedcCall(2, "lascl", "E", "Anorm", "one")}
    /\ Dout' = "scaled"
    /\ UNCHANGED <<cfg, retval, Adata, Bdata, layout, Qout>>
    /\ UNCHANGED views
    /\ UNCHANGED sweep
    /\ UNCHANGED lapack

\* if (isinf(Anorm) || isnan(Anorm)) throw std::domain_error(...)
StedcNonFinite ==
    /\ pc = "stedc"
    /\ Anorm \in {"inf", "nan"}
    /\ pc' = "thrown"
    /\ UNCHANGED <<cfg, retval, ops>>
    /\ UNCHANGED sweep
    /\ UNCHANGED unit
    /\ UNCHANGED lapack

\* Scaling of D and E, workspaces W and U, W = Identity, stedc_solve, and
\* stedc_sort of the eigenvectors into Q.
StedcSolve ==
    /\ pc = "stedc"
    /\ Anorm \notin {"zero", "inf", "nan"}
    /\ Qout' = "eigenvectors"
    /\ Dout' = "eigenvalues"
    /\ ops' = StedcBody
    /\ pc' = "scale_back"
    /\ UNCHANGED <<cfg, retval, Adata, Bdata, layout>>
    /\ UNCHANGED views
    /\ UNCHANGED sweep
    /\ UNCHANGED lapack

\* Scale eigenvalues back; return.
StedcReturn ==
    /\ pc = "scale_back"
    /\ ops' = ops \cup StedcScaleBack
    /\ pc' = "done"
    /\ UNCHANGED <<cfg, retval>>
    /\ UNCHANGED sweep
    /\ UNCHANGED unit
    /\ UNCHANGED lapack

\* ---------------------------------------------------------- convert_layout
\* Offsets of the buffer of an n x n tile with leading dimension lda.
Offsets(n, lda) == 0..(lda * n - 1)

\* Tile::operator()(i, j): the element at row i, column j under the tile's
\* layout tag.
At(data, lay, lda, i, c) ==
    IF lay = "ColMajor" THEN data[i + c * lda] ELSE data[c + i * lda]

\* In-place transposition of the n x n part of the buffer: the elements at
\* offsets i + c*lda and c + i*lda change places, the padding stays.
convert_layout(data, n, lda) ==
    [o \in DOMAIN data |->
        IF o % lda < n /\ o \div lda < n
        THEN data[(o \div lda) + (o % lda) * lda]
        ELSE data[o]]

\* Variant: the tag changes, the buffer is left as it is.
ConvertLayout_TagOnly ==
    /\ pc = "convert_layout"
    /\ layout' = [layout EXCEPT !.A = IF @ = "ColMajor" THEN "RowMajor"
                                                        ELSE "ColMajor"]
    /\ pc' = "done"
    /\ UNCHANGED <<cfg, retval, ops, Adata, Bdata, Qout, Dout>>
    /\ UNCHANGED views
    /\ UNCHANGED sweep
    /\ UNCHANGED lapack

\* convert_layout(&A)
ConvertLayout ==
    /\ pc = "convert_layout"
    /\ Adata' = convert_layout(Adata, cfg.n, cfg.lda)
    /\ layout' = [layout EXCEPT !.A = IF @ = "ColMajor" THEN "RowMajor"
                                                        ELSE "ColMajor"]
    /\ pc' = "done"
    /\ UNCHANGED <<cfg, retval, ops, Bdata, Qout, Dout>>
    /\ UNCHANGED views
    /\ UNCHANGED sweep
    /\ UNCHANGED lapack

\* --------------------------------------------------------------- tile gemm
\* blas::Op ops[] of the tests.
Ops3 == {"NoTrans", "Trans", "ConjTrans"}

\* op(C) = alpha op(A) op(B) + beta op(C) is computed on the stored C: for
\* op(C) # NoTrans the product is transposed (conjugate-transposed) as a
\* whole, so each operand X is needed as (op(X))^T, respectively (op(X))^H.
\* For a real scalar type conjugation does nothing; for a complex one the
\* conjugate without transposition ("Conj") is no operation of BLAS.
OperandOp_NoTypeTest(x, c, complex) ==
    IF c = "NoTrans" THEN x
    ELSE IF x = "NoTrans" THEN c
    ELSE IF x = c THEN "NoTrans"
    ELSE "Conj"

OperandOp(x, c, complex) ==
    IF c = "NoTrans" THEN x
    ELSE IF x = "NoTrans" THEN c
    ELSE IF x = c \/ ~complex THEN "NoTrans"
    ELSE "Conj"

\* gemm( alpha, A, B, beta, C ) inside the try block of test_gemm: it throws
\* when an operand would be needed conjugated but not transposed.
Gemm ==
    /\ pc = "gemm"
    /\ pc' = IF "Conj" \in {OperandOp(cfg.opA, cfg.opC, cfg.complex),
                            OperandOp(cfg.opB, cfg.opC, cfg.complex)}
             THEN "thrown" ELSE "done"
    /\ UNCHANGED <<cfg, retval, ops>>
    /\ UNCHANGED sweep
    /\ UNCHANGED unit
    /\ UNCHANGED lapack

\* ------------------------------------------------- by-value matrix views
\* A matrix view: the operand transform, the triangle of op(A) ("General"
\* for B) and the numbers of block rows and columns of op(A).
View(op, ul, mt, nt) == [op |-> op, uplo |-> ul, mt |-> mt, nt |-> nt]

Flip(ul) ==
    CASE ul = "Lower" -> "Upper" [] ul = "Upper" -> "Lower" [] OTHER -> ul

\* transpose(A), conj_transpose(A), conjTranspose(A): a new view of the
\* same tiles with the transform toggled, the triangle and the dimensions
\* swapped.
transposed(V) == View(transpose(V.op), Flip(V.uplo), V.nt, V.mt)

conj_transposed(V) == View(conj_transpose(V.op), Flip(V.uplo), V.nt, V.mt)

\* blas::conj of a scalar re + im*i.
conj(a) == [a EXCEPT !.im = 0 - @]

one == [re |-> 1, im |-> 0]

\* The call binds the parameters side, alpha, A, B by value: copies of the
\* caller's views.
TrsmACall ==
    /\ pc = "trsmA_call"
    /\ args' = [side |-> cfg.side, alpha |-> caller.alpha,
                A |-> caller.A, B |-> caller.B]
    /\ pc' = "normalize"
    /\ UNCHANGED <<cfg, retval, ops, caller>>
    /\ UNCHANGED sweep
    /\ UNCHANGED tile
    /\ UNCHANGED lapack

\* Variant: A and B are references to the caller's views.
TrsmANormalize_ByReference ==
    /\ pc = "normalize" /\ cfg.routine = "trsmA_call"
    /\ args' = IF args.side # "Right" THEN args
               ELSE IF args.A.op = "ConjTrans" \/ args.B.op = "ConjTrans"
               THEN [args EXCEPT !.A = conj_transposed(@),
                                 !.B = conj_transposed(@),
                                 !.alpha = conj(@)]
               ELSE [args EXCEPT !.A = transposed(@), !.B = transposed(@)]
    /\ caller' = [caller EXCEPT !.A = args'.A, !.B = args'.B]
    /\ pc' = "first_panel"
    /\ UNCHANGED <<cfg, retval, ops>>
    /\ UNCHANGED sweep
    /\ UNCHANGED tile
    /\ UNCHANGED lapack

\* if on right, change to left by (conj)-transposing A and B
TrsmANormalize ==
    /\ pc = "normalize" /\ cfg.routine = "trsmA_call"
    /\ args' = IF args.side # "Right" THEN args
               ELSE IF args.A.op = "ConjTrans" \/ args.B.op = "ConjTrans"
               THEN [args EXCEPT !.A = conj_transposed(@),
                                 !.B = conj_transposed(@),
                                 !.alpha = conj(@)]
               ELSE [args EXCEPT !.A = transposed(@), !.B = transposed(@)]
    /\ pc' = "first_panel"
    /\ UNCHANGED <<cfg, retval, ops, caller>>
    /\ UNCHANGED sweep
    /\ UNCHANGED tile
    /\ UNCHANGED lapack

\* A call of the first panel, with the side and the scalar it is given.
SolveCall(op, side, alpha) == [op |-> op, side |-> side, alpha |-> alpha]

\* First panel of the sweep: B is scaled by alpha unless alpha is one, and
\* the diagonal block is solved from the left with the scalar one.
TrsmAFirstPanel ==
    /\ pc = "first_panel" /\ cfg.routine = "trsmA_call"
    /\ ops' = (IF args.alpha # one
               THEN {SolveCall("scale", "none", args.alpha)} ELSE {})
              \cup {SolveCall("trsmA", "Left", one)}
    /\ pc' = "return"
    /\ UNCHANGED <<cfg, retval>>
    /\ UNCHANGED sweep
    /\ UNCHANGED unit
    /\ UNCHANGED lapack

\* potrf binds A by value.
PotrfCall ==
    /\ pc = "potrf_call"
    /\ args' = [A |-> caller.A]
    /\ pc' = "normalize"
    /\ UNCHANGED <<cfg, retval, ops, caller>>
    /\ UNCHANGED sweep
    /\ UNCHANGED tile
    /\ UNCHANGED lapack

\* if upper, change to lower
PotrfNormalize ==
    /\ pc = "normalize" /\ cfg.routine = "potrf_call"
    /\ args' = IF args.A.uplo = "Upper"
               THEN [args EXCEPT !.A = conj_transposed(@)] ELSE args
    /\ pc' = "return"
    /\ UNCHANGED <<cfg, retval, ops, caller>>
    /\ UNCHANGED sweep
    /\ UNCHANGED tile
    /\ UNCHANGED lapack

\* The routine returns; its parameters go out of scope with the values they
\* have.
CallReturn ==
    /\ pc = "return"
    /\ pc' = "done"
    /\ UNCHANGED <<cfg, retval, ops>>
    /\ UNCHANGED sweep
    /\ UNCHANGED unit
    /\ UNCHANGED lapack

\* -------------------------------------------- single-call routines: runs
TrnormConfigs ==
    {[routine |-> "trnorm", norm |-> v[1], target |-> v[2]] :
       v \in (Norms \cup {"Invalid"})
             \X {"Unset", "Host", "HostTask", "HostNest", "HostBatch",
                 "Devices", "Invalid"}}

StedcConfigs ==
    UNION {{[routine |-> "stedc", n |-> n, D |-> d, E |-> e] :
              d \in [1..n -> Entries], e \in [1..(n - 1) -> Entries]} :
           n \in 1..MaxEigN}

ConvertLayoutConfigs ==
    {[routine |-> "convert_layout", n |-> v[1], lda |-> v[1] + v[2],
      seed |-> v[3]] :
       v \in (1..MaxTileN) \X (0..MaxPad) \X (0..MaxSeed)}

\* The loops of test_gemm over op(C), op(B), op(A), for a real and for a
\* complex scalar type.
GemmConfigs ==
    {[routine |-> "gemm", complex |-> v[1], opA |-> v[2], opB |-> v[3],
      opC |-> v[4]] :
       v \in BOOLEAN \X Ops3 \X Ops3 \X Ops3}

\* Calls of trsmA: side, the transforms of A and B (never one transposed
\* and the other conjugate-transposed), the triangle of op(A), alpha, and
\* the numbers of block rows and columns of B.
TrsmACalls ==
    {[routine |-> "trsmA_call", side |-> v[1], opA |-> v[2], opB |-> v[3],
      uplo |-> v[4], im |-> v[5], mt |-> v[6], nt |-> v[7]] :
       v \in {v \in {"Left", "Right"} \X Ops3 \X Ops3 \X {"Lower", "Upper"}
                     \X {0 - 1, 0, 1} \X (1..VarMaxNt) \X (1..VarMaxNt) :
                 {v[2], v[3]} # {"Trans", "ConjTrans"}}}

PotrfCalls ==
    {[routine |-> "potrf_call", uplo |-> v[1], nt |-> v[2]] :
       v \in {"Lower", "Upper"} \X (1..VarMaxNt)}

\* The caller's views at the call.
CallerViews(c) ==
    IF c.routine = "trsmA_call"
    THEN [alpha |-> [re |-> 1, im |-> c.im],
          A |-> IF c.side = "Left" THEN View(c.opA, c.uplo, c.mt, c.mt)
                                   ELSE View(c.opA, c.uplo, c.nt, c.nt),
          B |-> View(c.opB, "General", c.mt, c.nt)]
    ELSE IF c.routine = "potrf_call"
    THEN [A |-> View("NoTrans", c.uplo, c.nt, c.nt)]
    ELSE <<>>

\* Adata filled with values that differ from offset to offset
\* (lapack::larnv in the test), Bdata a copy of it, both tiles ColMajor.
UnitInit ==
    /\ cfg \in TrnormConfigs \cup StedcConfigs \cup ConvertLayoutConfigs
               \cup GemmConfigs \cup TrsmACalls \cup PotrfCalls
    /\ caller = CallerViews(cfg)
    /\ args = <<>>
    /\ pc = cfg.routine
    /\ k = 0 /\ j = 0 /\ tasks = <<>> /\ st = <<>> /\ hist = <<>>
    /\ kernel_info = 0 /\ retval = NoValue /\ comm = {} /\ info = NoValue
    /\ reg = [live |-> {}, freed |-> {}, solved |-> {}]
    /\ ops = {}
    /\ Adata = IF cfg.routine = "convert_layout"
               THEN [o \in Offsets(cfg.n, cfg.lda) |-> cfg.seed + o] ELSE <<>>
    /\ Bdata = Adata
    /\ layout = [A |-> "ColMajor", B |-> "ColMajor"]
    /\ Qout = "unwritten"
    /\ Dout = "entry"
    /\ LapackInit

UnitNext ==
    \/ TrnormDispatch
    \/ TrnormSelect
    \/ TrnormReserve
    \/ TrnormKernel
    \/ TrnormMpiEnter
    \/ TrnormMpiLeave
    \/ TrnormReturn
    \/ Caught
    \/ Terminated
    \/ StedcZero
    \/ StedcNonFinite
    \/ StedcSolve
    \/ StedcReturn
    \/ ConvertLayout
    \/ Gemm
    \/ TrsmACall
    \/ TrsmANormalize
    \/ TrsmAFirstPanel
    \/ PotrfCall
    \/ PotrfNormalize
    \/ CallReturn

UnitSpec == UnitInit /\ [][UnitNext]_vars

\* ================================================================== claims
Sweep == cfg.routine \in {"potrf", "trsmA"}

Compute(t) == t.kind \in {"panel", "lookahead", "trailing"}

TaskIds == 1..Len(tasks)

\* One of the two tasks writes a column (row) the other reads or writes.
DataConflict(t1, t2) ==
    \/ t1.wr \cap (t2.rd \cup t2.wr) # {}
    \/ t2.wr \cap (t1.rd \cup t1.wr) # {}

\* C1: in every interleaving of a sweep, two of its panel, lookahead and
\* trailing tasks never run at the same time when one of them writes a tile
\* column (row of B) that the other reads or writes.
C1_NoConflictingOverlap ==
    \A a, b \in TaskIds :
        (a < b /\ st[a] = "running" /\ st[b] = "running"
               /\ Compute(tasks[a]) /\ Compute(tasks[b]))
            => ~DataConflict(tasks[a], tasks[b])

\* Two lookahead updates of one step, both reading column k, run together.
C1_Witness ==
    \E a, b \in TaskIds :
        /\ a < b /\ st[a] = "running" /\ st[b] = "running"
        /\ tasks[a].kind = "lookahead" /\ tasks[b].kind = "lookahead"
        /\ tasks[a].rd \cap tasks[b].rd # {}

\* Columns (rows) the lookahead tasks and the trailing task of step kk update.
LookaheadSet(kk) ==
    UNION {tasks[i].wr : i \in {i \in TaskIds :
              tasks[i].kind = "lookahead" /\ tasks[i].k = kk}}

TrailingSet(kk) ==
    UNION {tasks[i].wr : i \in {i \in TaskIds :
              tasks[i].kind = "trailing" /\ tasks[i].k = kk}}

Count(kind, kk) ==
    Cardinality({i \in TaskIds : tasks[i].kind = kind /\ tasks[i].k = kk})

MinOf(a, b) == IF a < b THEN a ELSE b

MaxOf(a, b) == IF a > b THEN a ELSE b

\* C2: once the driver loop has ended, there is exactly one panel task per
\* column 0..nt-1 and at every step k the lookahead tasks update exactly
\* k+1..min(k+lookahead, nt-1), one task per column, the trailing task
\* exactly k+1+lookahead..nt-1 (no task when that range is empty), the two
\* sets are disjoint and their union is k+1..nt-1; mirrored for the backward
\* sweep (k-lookahead..k-1 clipped at 0, 0..k-1-lookahead, union 0..k-1).
C2_PartitionCover ==
    (Sweep /\ pc \in {"end", "done"}) =>
        /\ \A i \in TaskIds : tasks[i].kind = "panel" => tasks[i].k \in 0..(A_nt - 1)
        /\ \A kk \in 0..(A_nt - 1) :
            /\ Count("panel", kk) = 1
            /\ LookaheadSet(kk) =
                 IF Forward THEN (kk + 1)..MinOf(kk + lookahead, A_nt - 1)
                            ELSE MaxOf(kk - lookahead, 0)..(kk - 1)
            /\ Count("lookahead", kk) = Cardinality(LookaheadSet(kk))
            /\ TrailingSet(kk) =
                 IF Forward THEN (kk + 1 + lookahead)..(A_nt - 1)
                            ELSE 0..(kk - 1 - lookahead)
            /\ Count("trailing", kk) = IF TrailingSet(kk) = {} THEN 0 ELSE 1
            /\ LookaheadSet(kk) \cap TrailingSet(kk) = {}
            /\ LookaheadSet(kk) \cup TrailingSet(kk) =
                 IF Forward THEN (kk + 1)..(A_nt - 1) ELSE 0..(kk - 1)

\* A finished backward sweep whose steps have lookahead and trailing parts.
C2_Witness ==
    /\ pc = "done" /\ cfg.routine = "trsmA" /\ ~Forward
    /\ A_nt = 4 /\ lookahead = 1
    /\ LookaheadSet(3) = {2} /\ TrailingSet(3) = {0, 1}

\* Kernel operations column (row) c receives over the whole sweep: the
\* updates of the earlier steps, in sweep order, then its panel.
Expected(c) ==
    IF Forward
    THEN [n \in 1..(c + 1) |->
            IF n <= c THEN <<"update", n - 1>> ELSE <<"panel", c>>]
    ELSE [n \in 1..(A_nt - c) |->
            IF n < A_nt - c THEN <<"update", A_nt - n>> ELSE <<"panel", c>>]

IsPrefix(s1, s2) ==
    Len(s1) <= Len(s2) /\ \A n \in 1..Len(s1) : s1[n] = s2[n]

\* C3: for every column j, in every interleaving and for every lookahead,
\* the updates of steps 0..j-1 are applied to column j in increasing order
\* of k, each once, panel j starts only after all of them, and the finished
\* sweep has applied the same sequence whatever the lookahead.
C3_SameKernelSequence ==
    Sweep =>
        /\ \A c \in 0..(A_nt - 1) : IsPrefix(hist[c], Expected(c))
        /\ \A i \in TaskIds :
             (tasks[i].kind = "panel" /\ st[i] # "waiting")
                => Len(hist[tasks[i].k]) >= Len(Expected(tasks[i].k)) - 1
        /\ pc = "done" => \A c \in 0..(A_nt - 1) : hist[c] = Expected(c)

\* A finished potrf with lookahead 2 whose last column got three updates.
C3_Witness ==
    /\ pc = "done" /\ cfg.routine = "potrf" /\ lookahead = 2 /\ A_nt = 4
    /\ hist[3] = <<<<"update", 0>>, <<"update", 1>>, <<"update", 2>>,
                   <<"panel", 3>>>>

PanelCount == Cardinality({i \in TaskIds : tasks[i].kind = "panel"})

C5_ReturnsFirstFailure ==
    (pc = "done" /\ cfg.routine = "potrf") => retval = kernel_info

\* Column of the first panel whose kernel reported a failure.
FailedColumn == (kernel_info - 1) \div TileNb

\* C6: once the panel kernel of column f has reported a failure, no panel,
\* lookahead or trailing task of a step k > f is executed and no tile of the
\* columns 0..f-1 is written.
C6_SweepHaltsAtFailure ==
    (cfg.routine = "potrf" /\ kernel_info > 0) =>
        \A i \in TaskIds :
            /\ tasks[i].k > FailedColumn => st[i] = "waiting"
            /\ st[i] = "running" => tasks[i].wr \cap 0..(FailedColumn - 1) = {}

\* C7: slate_gesv returns in *info the diagnostic code of the solve: 0 if
\* and only if it succeeded, the first failing index (> 0) otherwise.
C7_InfoIsDiagnostic ==
    (pc = "done" /\ cfg.routine = "gesv") => info = kernel_info

\* C8: after a complete trsmA sweep every non-origin tile instance created
\* during the sweep has been released and ended with a life count <= 0.
C8_LifeCountInvariant ==
    (pc = "done" /\ cfg.routine = "trsmA") =>
        /\ reg.live = {}
        /\ \A t \in reg.freed : t.life <= 0

NoLookaheadTask == \A i \in TaskIds : tasks[i].kind # "lookahead"

Bcasts == {m \in comm : m.op \in {"tileBcast", "listBcast"}}

OnePanelOnly ==
    /\ \A i \in TaskIds : tasks[i].kind \notin {"lookahead", "trailing"}
    /\ PanelCount <= 1
    /\ pc \in {"end", "done"} => PanelCount = 1

\* C10 as stated: for nt = 1 and every lookahead the sweep creates exactly
\* one panel task and no lookahead or trailing task, and the panel performs
\* no tile broadcast and no point-to-point send to another process.
C10_NoCommunication ==
    (Sweep /\ A_nt = 1) =>
        /\ OnePanelOnly
        /\ \A m \in Bcasts : m.dest \subseteq {m.from}
        /\ \A m \in comm : m.op = "tileSend" => m.dest \subseteq {m.from}

\* C10 as amended: for nt = 1 and every lookahead the sweep creates exactly
\* one panel task and no lookahead or trailing task; potrf's panel issues no
\* communication at all and every broadcast of trsmA's panel has an empty
\* destination region; the only messages are trsmA's returns of a solved
\* tile B(0, j) from the owner of A(0, 0) to the owner of B(0, j).
C10_SingleTile ==
    (Sweep /\ A_nt = 1) =>
        /\ OnePanelOnly
        /\ cfg.routine = "potrf" => comm = {}
        /\ \A m \in Bcasts : m.dest = {}
        /\ \A m \in comm : m.op = "tileSend" =>
             /\ cfg.routine = "trsmA"
             /\ m.from = tileRank(0, 0)
             /\ m.dest = {tileRank(0, m.j)}

\* A finished single-row trsmA with lookahead whose panel sent a solved tile
\* to another process.
C10_Witness ==
    /\ pc = "done" /\ cfg.routine = "trsmA" /\ A_nt = 1 /\ lookahead >= 1
    /\ PanelCount = 1
    /\ \E m \in comm : m.op = "tileSend" /\ m.dest # {m.from}

\* Steps of the panel tasks in the order the driver loop submitted them.
PanelSteps ==
    LET ps == SelectSeq(tasks, LAMBDA t : t.kind = "panel")
    IN  [n \in 1..Len(ps) |-> ps[n].k]

ForwardOrder == \A n \in DOMAIN PanelSteps : PanelSteps[n] = n - 1

BackwardOrder == \A n \in DOMAIN PanelSteps : PanelSteps[n] = A_nt - n

\* A later panel never starts before an earlier one has finished.
PanelsInTurn ==
    \A a, b \in TaskIds :
        (a < b /\ tasks[a].kind = "panel" /\ tasks[b].kind = "panel"
               /\ st[b] # "waiting") => st[a] = "done"

\* C11 as stated: trsmA sweeps forward (k = 0, 1, ..., mt-1) when A is
\* stored lower and backward (k = mt-1, ..., 0) when A is stored upper, for
\* both sides and every operand transform.
C11_StoredHalf ==
    (cfg.routine = "trsmA") =>
        /\ PanelsInTurn
        /\ cfg.stored = "Lower" => ForwardOrder
        /\ cfg.stored = "Upper" => BackwardOrder

\* Triangle of the operator the left-side solve is carried out with.
EffectiveLower ==
    \/ cfg.side = "Left"  /\ cfg.op = "NoTrans" /\ cfg.stored = "Lower"
    \/ cfg.side = "Left"  /\ cfg.op # "NoTrans" /\ cfg.stored = "Upper"
    \/ cfg.side = "Right" /\ cfg.op = "NoTrans" /\ cfg.stored = "Upper"
    \/ cfg.side = "Right" /\ cfg.op # "NoTrans" /\ cfg.stored = "Lower"

\* C11 as amended: trsmA sweeps forward when the triangular operator of the
\* left-side form of the solve, op(A) (transposed once more for side =
\* Right), is lower, and backward when it is upper; the stored half decides
\* alone only for side = Left with NoTrans.
C11_EffectiveTriangle ==
    (cfg.routine = "trsmA") =>
        /\ PanelsInTurn
        /\ EffectiveLower => ForwardOrder
        /\ ~EffectiveLower => BackwardOrder

\* A finished two-step solve with A stored lower and transposed: the panels
\* ran backward.
C11_Witness ==
    /\ pc = "done" /\ cfg.routine = "trsmA" /\ A_nt = 2
    /\ cfg.side = "Left" /\ cfg.op = "Trans" /\ cfg.stored = "Lower"
    /\ PanelSteps = <<1, 0>>

\* Panel tiles of step kk this process reads in an update task that writes
\* the columns (rows of B) in cols: potrf A(r, kk) and A(c, kk) for its own
\* tiles (r, c), c <= r; trsmA B(kk, c) for the rows i where it owns A(i, kk).
Operands(kk, cols) ==
    IF cfg.routine = "potrf"
    THEN UNION {{<<t[1], kk>>, <<t[2], kk>>} :
                  t \in {t \in (0..(A_nt - 1)) \X cols :
                           t[2] <= t[1] /\ tileIsLocal(t[1], t[2])}}
    ELSE IF \E i \in cols : tileIsLocal(i, kk)
         THEN {kk} \X (0..(cfg.Bnt - 1))
         ELSE {}

\* The panel of step kk has broadcast tile (i, c) to this process.
Received(kk, i, c) ==
    \E m \in Bcasts :
        m.op = "listBcast" /\ m.k = kk /\ m.i = i /\ m.j = c /\ cfg.me \in m.dest

\* C12: whenever an update task of step k has started on this process, every
\* panel tile it uses as an operand is owned by this process or has been
\* broadcast to it by the panel of step k, the broadcast having completed.
C12_BcastCoversConsumers ==
    Sweep =>
        \A i \in TaskIds :
            (tasks[i].kind \in {"lookahead", "trailing"} /\ st[i] # "waiting")
                => \A t \in Operands(tasks[i].k, tasks[i].wr) :
                       tileIsLocal(t[1], t[2]) \/ Received(tasks[i].k, t[1], t[2])

\* An update task runs on a process that does not own one of its operands
\* and got it from the broadcast.
C12_Witness ==
    \E i \in TaskIds :
        /\ tasks[i].kind \in {"lookahead", "trailing"} /\ st[i] = "running"
        /\ \E t \in Operands(tasks[i].k, tasks[i].wr) :
               ~tileIsLocal(t[1], t[2]) /\ Received(tasks[i].k, t[1], t[2])

Reduces == {m \in comm : m.op = "listReduce"}

\* Owners of the tiles of row kk of A between columns c1 and c2.
RowOwners(kk, c1, c2) ==
    {(kk % cfg.p) + (c % cfg.q) * cfg.p : c \in c1..c2}

\* C13: in every trsmA step k and for every column j of B the reduction
\* delivers to the owner of A(k, k) and takes its contributions from the
\* owner of B(k, j) and the owners of A(k, 0..k) (forward) or A(k, k..mt-1)
\* (backward); the solve of row k is called only by the owner of A(k, k)
\* and only after the reduction of the same panel.
C13_ReduceThenSolve ==
    (cfg.routine = "trsmA") =>
        /\ \A m \in Reduces :
             /\ m.from = (m.k % cfg.p) + (m.k % cfg.q) * cfg.p
             /\ m.dest = {(m.k % cfg.p) + (m.j % cfg.q) * cfg.p}
                           \cup (IF cfg.uplo = "Lower"
                                 THEN RowOwners(m.k, 0, m.k)
                                 ELSE RowOwners(m.k, m.k, A_nt - 1))
        /\ \A i \in TaskIds :
             (tasks[i].kind = "panel" /\ st[i] = "done")
                => \A c \in 0..(cfg.Bnt - 1) :
                      \E m \in Reduces : m.k = tasks[i].k /\ m.j = c
        /\ \A s \in ops :
             s.op = "trsmA" =>
                /\ s.kind = "panel"
                /\ cfg.me = (s.k % cfg.p) + (s.k % cfg.q) * cfg.p
                /\ \E r \in ops : r.op = "listReduce" /\ r.kind = "panel"
                                    /\ r.k = s.k /\ r.seq < s.seq

\* The owner of A(1, 1) has solved row 1 after gathering it from another
\* process.
C13_Witness ==
    /\ cfg.routine = "trsmA" /\ cfg.p * cfg.q > 1
    /\ \E s \in ops : s.op = "trsmA" /\ s.k = 1
    /\ \E m \in Reduces : m.k = 1 /\ m.dest # {m.from}

\* Calls of compute kernels (no communication, no workspace management).
Kernels ==
    {s \in ops : s.op \in {"potrf", "trsm", "herk", "gemm", "trsmA", "gemmA"}}

TrnormInvalid ==
    /\ cfg.routine = "trnorm"
    /\ \/ cfg.norm \notin Norms
       \/ cfg.target \notin {"Unset", "Host", "HostTask", "HostNest",
                             "HostBatch", "Devices"}

Cleans(t) == t.kind \in {"release", "clean", "cleanup"}

ReadersOf(b) ==
    {a \in TaskIds : Compute(tasks[a]) /\ tasks[a].rd \cap tasks[b].wr # {}}

\* C16: a cleanup task (potrfCleanTiles of column k, potrfReleasePanel of
\* column k - lookahead, the erase task of row k in forward trsmA) starts
\* only after every task that reads that column has finished: its panel,
\* every lookahead update of that step and the trailing update of that step.
C16_CleanupAfterReaders ==
    \A b \in TaskIds :
        (Cleans(tasks[b]) /\ st[b] # "waiting")
            => \A a \in ReadersOf(b) : st[a] = "done"

\* potrfReleasePanel of column k - lookahead runs, and that step had a
\* panel, lookahead updates and a trailing update.
C16_Witness ==
    \E b \in TaskIds :
        /\ tasks[b].kind = "release" /\ st[b] = "running"
        /\ {tasks[a].kind : a \in ReadersOf(b)}
              = {"panel", "lookahead", "trailing"}

\* ---------------------------------------------------------------------- C17
\* The update tasks of step kk, all of which consume the solved row B(kk, :):
\* one lookahead task per row of the lookahead loop, and the trailing task.
ConsumerTasks(kk) ==
    {<<"lookahead", c>> :
        c \in {c \in 0..(A_nt - 1) :
                 /\ IF Forward THEN c >= LookaheadFirst(kk)
                               ELSE c <= LookaheadFirst(kk)
                 /\ LookaheadCond(kk, c)}}
    \cup (IF TrailingCond(kk) THEN {<<"trailing", kk>>} ELSE {})

\* C17: the life count given to the instances received from trsmA's
\* broadcast of the solved row B(k, :) equals, at every step k, the number
\* of tasks of step k that consume the row on the receiving process: the
\* lookahead update tasks of step k plus its trailing update task, also at
\* the last steps of the sweep, where fewer than lookahead + 1 exist.
C17_LifeIsConsumerCount ==
    cfg.routine = "trsmA" =>
        \A m \in comm :
            (m.op = "listBcast" /\ cfg.me \in m.dest /\ cfg.me # m.from)
                => m.life = Cardinality(ConsumerTasks(m.k))

\* ---------------------------------------------------------------------- C18
DevicesPotrf == cfg.routine = "potrf" /\ cfg.target = "Devices"

\* Calls of the log made with operation o.
CallsOf(o) == {c \in ops : c.op = o}

\* Compute queues named by the calls of a task.
Queues(t) == {c.queue : c \in TaskCalls(t)} \ {NoValue}

\* C18: in Devices potrf the batch arrays are reserved once, before the
\* sweep, for lookahead + 2 queues; every queue given to a kernel of the
\* sweep lies in 0..lookahead + 1 (trailing herk 0, panel trsm 1, lookahead
\* update of column j at step k: j - k + 1); two tasks of one step that run
\* at the same time use different queues; and the workspace is released
\* once, after the sweep has ended.
C18_DeviceQueues ==
    DevicesPotrf =>
        /\ CallsOf("allocateBatchArrays")
              = {Call("setup", 0, 0, 1, "allocateBatchArrays", "Devices",
                      lookahead + 2)}
        /\ Cardinality(CallsOf("reserveDeviceWorkspace")) = 1
        /\ \A c \in ops :
             c.op \in {"trsm", "herk", "gemm"} =>
                 /\ c.queue \in 0..(lookahead + 1)
                 /\ c.kind = "trailing"  => c.queue = 0
                 /\ c.kind = "panel"     => c.queue = 1
                 /\ c.kind = "lookahead" => c.queue = c.j - c.k + 1
        /\ \A a, b \in TaskIds :
             (a # b /\ tasks[a].k = tasks[b].k
                    /\ st[a] = "running" /\ st[b] = "running")
                => Queues(tasks[a]) \cap Queues(tasks[b]) = {}
        /\ Cardinality(CallsOf("releaseWorkspace"))
              = (IF pc = "done" THEN 1 ELSE 0)
        /\ pc = "done" => AllDone

\* The sweep of a Devices potrf with lookahead 2 has ended: the trailing
\* update and two lookahead updates of one step ran on queues 0, 2 and 3,
\* the panel trsm on queue 1, and the workspace has been released.
C18_Witness ==
    /\ DevicesPotrf /\ lookahead = 2 /\ pc = "done"
    /\ CallsOf("releaseWorkspace") # {}
    /\ {c.queue : c \in {c \in ops : c.k = 0 /\ c.kind \in
                           {"panel", "lookahead", "trailing"}}} \ {NoValue}
          = 0..3

\* ---------------------------------------------------------------------- C19
\* D holds the eigenvalues in ascending order: it was overwritten with them,
\* or the matrix is zero and D, all zeros, is its own spectrum.
DIsSpectrum == Dout = "eigenvalues" \/ Anorm = "zero"

\* C19: whenever stedc returns normally, for every D and E (the all-zero
\* tridiagonal matrix included), Q has been written with the orthonormal
\* eigenvectors and D holds the eigenvalues in ascending order; stedc never
\* returns normally with Q unwritten.
C19_QWrittenOnReturn ==
    (cfg.routine = "stedc" /\ pc = "done")
        => Qout = "eigenvectors" /\ DIsSpectrum

\* ---------------------------------------------------------------------- C20
\* The buffer both tiles were filled with before the call.
Original == [o \in Offsets(cfg.n, cfg.lda) |-> cfg.seed + o]

GemmRefused ==
    /\ cfg.complex
    /\ \/ cfg.opC = "Trans" /\ "ConjTrans" \in {cfg.opA, cfg.opB}
       \/ cfg.opC = "ConjTrans" /\ "Trans" \in {cfg.opA, cfg.opB}

ConjUsed ==
    cfg.side = "Right" /\ "ConjTrans" \in {cfg.opA, cfg.opB}

\* C22: trsmA and potrf re-interpret their by-value matrix arguments without
\* affecting the caller: the caller's views keep their op, uplo and
\* dimensions throughout and after the call; for side = Right the sweep
\* solves a left-sided system on views whose dimensions agree, with alpha
\* conjugated exactly when the conjugate-transpose re-interpretation was
\* used; potrf works on a lower view.
C22_CallerUnaffected ==
    /\ cfg.routine \in {"trsmA_call", "potrf_call"}
          => caller = CallerViews(cfg)
    /\ (cfg.routine = "trsmA_call" /\ pc \in {"first_panel", "return", "done"})
          => /\ args.alpha = IF ConjUsed THEN conj(caller.alpha)
                                         ELSE caller.alpha
             /\ args.A.mt = args.B.mt /\ args.A.nt = args.B.mt
             /\ cfg.side = "Right" =>
                  /\ args.A.op # caller.A.op /\ args.B.op # caller.B.op
                  /\ args.A.uplo # caller.A.uplo
    /\ (cfg.routine = "trsmA_call" /\ pc \in {"return", "done"})
          => /\ \E c \in ops : c.op = "trsmA"
             /\ \A c \in ops : c.op = "trsmA" => c.side = "Left"
             /\ \A c \in ops : c.op = "scale" => c.alpha = args.alpha
    /\ (cfg.routine = "potrf_call" /\ pc \in {"return", "done"})
          => args.A.uplo = "Lower"

\* A right-sided solve with A conjugate-transposed and a non-real alpha has
\* returned: the callee worked on re-interpreted views and the conjugated
\* alpha, the caller's views are as they were.
C22_Witness ==
    /\ cfg.routine = "trsmA_call" /\ pc = "done"
    /\ cfg.side = "Right" /\ cfg.opA = "ConjTrans" /\ cfg.im = 1
    /\ cfg.mt = 1 /\ cfg.nt = 2
    /\ args.A # caller.A /\ args.B # caller.B
    /\ args.alpha # caller.alpha
    /\ caller.B = View(cfg.opB, "General", 1, 2)

\* ---------------------------------------------------------------------- C23
\* First column (row) of the trailing update of step kk: the token the
\* later steps wait on.
NextToken(kk) == IF Forward THEN kk + 1 + lookahead ELSE kk - 1 - lookahead

\* C23: the trailing update tasks of one sweep run one after the other in
\* the order of their steps, for every lookahead and in every interleaving;
\* and a panel or lookahead task of a later step on column k + 1 + lookahead
\* (row k - 1 - lookahead backward) starts only after trailing task k has
\* finished.
C23_TrailingChain ==
    Sweep =>
        \A a, b \in TaskIds :
            (a < b /\ tasks[a].kind = "trailing" /\ st[b] # "waiting"
                   /\ \/ tasks[b].kind = "trailing"
                      \/ /\ tasks[b].kind \in {"panel", "lookahead"}
                         /\ tasks[b].j = NextToken(tasks[a].k))
                => st[a] = "done"

\* With lookahead 1, the second trailing task of a sweep runs while no other
\* token than the last one ties it to the first, which has finished.
C23_Witness ==
    /\ Sweep /\ lookahead = 1
    /\ \E a, b \in TaskIds :
         /\ tasks[a].kind = "trailing" /\ tasks[b].kind = "trailing"
         /\ tasks[b].k = NextK(tasks[a].k)
         /\ st[a] = "done" /\ st[b] = "running"
         /\ tasks[a].dinout \cap tasks[b].dinout
               = {IF Forward THEN A_nt - 1 ELSE 0}

\* ---------------------------------------------------------------------- C24
\* The panel of the step after kk runs while the trailing update of step kk
\* is still running.
Overlap(kk) ==
    \E a, b \in TaskIds :
        /\ tasks[a].kind = "trailing" /\ tasks[a].k = kk /\ st[a] = "running"
        /\ tasks[b].kind = "panel" /\ tasks[b].k = NextK(kk)
        /\ st[b] = "running"

\* C24: with lookahead >= 1, for every step k whose trailing task exists
\* there is an execution in which the panel of step k+1 runs while the
\* trailing update of step k is still running: the schedule that starts
\* every ready task at once and lets the trailing updates run longest
\* reaches that state for every such k.
C24_PanelOverlapsTrailing ==
    \A kk \in 0..(MaxNt - 1) :
        (lookahead >= 1 /\ kk < A_nt /\ TrailingCond(kk)) => <>Overlap(kk)

\* With lookahead 1 and four columns, panel 2 runs while trailing update 1
\* is running.
C24_Witness ==
    /\ cfg.routine = "potrf" /\ cfg.target = "HostTask"
    /\ lookahead = 1 /\ A_nt = MaxNt
    /\ Overlap(1)

\* ---------------------------------------------------------------------- C25
\* C25 as stated: in every sweep variant every panel task and every
\* lookahead update task is submitted with priority 1 and every trailing
\* update task with priority 0.
C25_PanelAndLookaheadHigh ==
    Sweep =>
        \A i \in TaskIds :
            /\ tasks[i].kind \in {"panel", "lookahead"} => tasks[i].prio = 1
            /\ tasks[i].kind = "trailing" => tasks[i].prio = 0

\* C25 as amended: in host potrf and in trsmA (both directions) panel and
\* lookahead tasks are submitted with priority 1 and trailing tasks with
\* priority 0; in Devices potrf no task has a priority clause, so panel,
\* lookahead and trailing tasks all have priority 0.
C25_HighOnHostOnly ==
    Sweep =>
        \A i \in TaskIds :
            /\ (tasks[i].kind \in {"panel", "lookahead"} /\ ~DevicesPotrf)
                  => tasks[i].prio = 1
            /\ (tasks[i].kind \in {"panel", "lookahead"} /\ DevicesPotrf)
                  => tasks[i].prio = 0
            /\ tasks[i].kind = "trailing" => tasks[i].prio = 0

\* A Devices potrf has submitted a panel, a lookahead and a trailing task,
\* all with priority 0.
C25_Witness ==
    /\ DevicesPotrf
    /\ {"panel", "lookahead", "trailing"}
          \subseteq {tasks[i].kind : i \in {i \in TaskIds : tasks[i].prio = 0}}

\* ---------------------------------------------------------------------- C26
\* Call c comes earlier than call d in the body of the same task, on the
\* same tile.
Earlier(c, d) ==
    c.kind = d.kind /\ c.k = d.k /\ c.j = d.j /\ c.seq < d.seq

ListBcasts == {m \in comm : m.op = "listBcast"}

\* Two broadcasts of one panel with different source tiles.
SamePanel(m, n) == m.k = n.k /\ <<m.i, m.j>> # <<n.i, n.j>>

\* C27 as stated: two broadcasts of different source tiles that can be in
\* flight together carry different tags: in potrf's panel k the broadcast
\* of A(i, k) carries tag i, and in trsmA the broadcasts of B(k, 0), ...,
\* B(k, nt-1) of one panel are pairwise distinguishable by tag as well.
C27_DistinctTags ==
    Sweep =>
        \A m, n \in ListBcasts : SamePanel(m, n) => m.tag # n.tag

\* C27 as amended: panels never run together, so only the broadcasts of one
\* panel can be in flight together; in potrf the broadcast of A(i, k)
\* carries tag i and the tags of one panel are pairwise different; in trsmA
\* all broadcasts of one panel carry one tag, k in the forward sweep and 0
\* in the backward sweep.
C27_TagsAsCoded ==
    Sweep =>
        /\ \A a, b \in TaskIds :
             (a # b /\ tasks[a].kind = "panel" /\ tasks[b].kind = "panel")
                => ~(st[a] = "running" /\ st[b] = "running")
        /\ cfg.routine = "potrf" =>
             /\ \A m \in ListBcasts : m.tag = m.i
             /\ \A m, n \in ListBcasts : SamePanel(m, n) => m.tag # n.tag
        /\ cfg.routine = "trsmA" =>
             \A m \in ListBcasts : m.tag = IF Forward THEN m.k ELSE 0

\* Panel 1 of a forward trsmA has broadcast two different tiles of the
\* solved row to other processes under one tag.
C27_Witness ==
    \E m, n \in ListBcasts :
        /\ SamePanel(m, n) /\ m.dest # {} /\ n.dest # {}
        /\ cfg.routine = "trsmA" /\ Forward /\ m.k = 1
        /\ m.tag = n.tag

\* ---------------------------------------------------------------------- C28
\* Panels of trsmA this process has finished.
PanelsDone ==
    {tasks[i].k : i \in {i \in TaskIds : tasks[i].kind = "panel"
                                          /\ st[i] = "done"}}

Sent(kk, c, r) ==
    \E m \in comm : /\ m.op = "tileSend" /\ m.k = kk /\ m.j = c
                    /\ m.from = cfg.me /\ m.dest = {r}

Recvd(kk, c, root) ==
    \E m \in comm : /\ m.op = "tileRecv" /\ m.k = kk /\ m.j = c
                    /\ m.from = root /\ m.dest = {cfg.me}

\* C28: in trsmA, in both directions and on every grid, the return of the
\* solution is balanced.  Seen from one process after its panel k: if it
\* owns A(k, k) it has sent B(k, j) to r exactly when r owns B(k, j) and is
\* another process, and it has posted no receive; otherwise it has posted a
\* receive of B(k, j) from the owner of A(k, k) exactly when it owns
\* B(k, j), and has sent nothing.  The send condition on the owner and the
\* receive condition on r are then the same, so each send has its receive.
C28_SendRecvBalanced ==
    cfg.routine = "trsmA" =>
        \A kk \in PanelsDone : \A c \in 0..(cfg.Bnt - 1) :
            LET root == tileRank(kk, kk)
            IN  \A r \in 0..(cfg.p * cfg.q - 1) :
                  /\ Sent(kk, c, r) <=> /\ cfg.me = root
                                        /\ r = tileRank(kk, c)
                                        /\ r # root
                  /\ Recvd(kk, c, r) <=> /\ cfg.me # root
                                         /\ r = root
                                         /\ tileIsLocal(kk, c)

\* ---------------------------------------------------------------------- C29
\* Tokens named by the depend clauses of a task.
Tokens(t) == t.din \cup t.dinout

\* C29: every dependency token referenced by a task's depend clause is an
\* element of the token vector: for every nt, lookahead, step and release
\* strategy every index used in column[...] / row[...] lies in 0..nt-1, the
\* column[k+1] of the release task of Devices potrf included.
C29_TokensInVector ==
    Sweep => \A i \in TaskIds : Tokens(tasks[i]) \subseteq 0..(A_nt - 1)

\* ---------------------------------------------------------------------- C30
\* Tiles (i, k) of the panel columns that a finished panel broadcast with
\* is_shared and whose hold no cleanup body has unset.
OnHold ==
    IF is_shared
    THEN {<<m.i, m.k>> : m \in ListBcasts}
         \ {<<c.j, c.k>> : c \in CallsOf("tileUnsetHold")}
    ELSE {}

\* C30: in Devices potrf with lookahead in 1..nt-1, every panel column
\* whose tiles the panel broadcast put on hold has its holds unset by a
\* cleanup task (potrfReleasePanel under strategy All, potrfCleanTiles under
\* strategy Slate) before the sweep returns: no broadcast tile is on hold
\* when releaseWorkspace is called.
C30_NoHoldAtReturn ==
    (DevicesPotrf /\ lookahead \in 1..(A_nt - 1)
                  /\ CallsOf("releaseWorkspace") # {})
        => OnHold = {}

\* ---------------------------------------------------------------------- C31
\* Step a comes before step b in the sweep.
Before(a, b) == IF Forward THEN a < b ELSE a > b

Started(i) == st[i] \in {"running", "done"}

\* C31: panel tasks never overlap and run in sweep order, for every
\* lookahead >= 0: when the panel of a step has started, the panel of the
\* step before has finished and so has that step's update of the column
\* (row) of the new panel; the communications of the earlier panels have all
\* been issued and none of a later panel has, so every process issues the
\* panel communications in step order.
C31_PanelsInOrder ==
    Sweep =>
      \A b \in TaskIds :
        (tasks[b].kind = "panel" /\ Started(b)) =>
          /\ \A a \in TaskIds \ {b} :
               tasks[a].kind = "panel" =>
                 /\ st[a] # "running" \/ st[b] # "running"
                 /\ Before(tasks[a].k, tasks[b].k) => st[a] = "done"
          /\ PrevK(tasks[b].k) \in 0..(A_nt - 1) =>
               /\ \E a \in TaskIds : /\ tasks[a].kind = "panel"
                                     /\ tasks[a].k = PrevK(tasks[b].k)
                                     /\ st[a] = "done"
               /\ \E n \in 1..Len(hist[tasks[b].k]) :
                     hist[tasks[b].k][n] = <<"update", PrevK(tasks[b].k)>>
               /\ PanelComm(PrevK(tasks[b].k)) \subseteq comm
          /\ st[b] = "running" =>
               \A m \in comm : Before(m.k, tasks[b].k)

\* On a grid with more than one process, without lookahead, the last panel
\* of a three-step sweep is running after the two before it have
\* communicated.
C31_Witness ==
    /\ Sweep /\ lookahead = 0 /\ A_nt = GridMaxNt /\ cfg.p * cfg.q > 1
    /\ \E b \in TaskIds :
         /\ tasks[b].kind = "panel" /\ st[b] = "running"
         /\ tasks[b].k = (IF Forward THEN A_nt - 1 ELSE 0)
         /\ \E m \in comm : m.k = PrevK(tasks[b].k)
         /\ \E m \in comm : m.k = PrevK(PrevK(tasks[b].k))

\* ---------------------------------------------------------------------- C32
\* The scale calls logged for tile B(i, c).
ScalesOf(i, c) == {x \in CallsOf("scale") : x.i = i /\ x.j = c}

FirstPanel(a) == tasks[a].kind = "panel" /\ tasks[a].k = FirstK

FirstPanelDone == \E a \in TaskIds : FirstPanel(a) /\ st[a] = "done"

\* C32: in trsmA with alpha # 1 every local tile of B is scaled exactly
\* once, by the first panel task of the sweep (k = 0 forward, k = mt-1
\* backward), and no other task of the sweep has started before that panel
\* has finished; with alpha = 1 no tile is scaled.
C32_ScaledOnceFirst ==
    cfg.routine = "trsmA" =>
      /\ \A b \in TaskIds : (Started(b) /\ ~FirstPanel(b)) => FirstPanelDone
      /\ \A x \in CallsOf("scale") : x.k = FirstK /\ tileIsLocal(x.i, x.j)
      /\ \A i \in 0..(A_nt - 1), c \in 0..(cfg.Bnt - 1) :
           Cardinality(ScalesOf(i, c))
             = IF FirstPanelDone /\ cfg.alpha # 1 /\ tileIsLocal(i, c)
               THEN 1 ELSE 0

\* On a grid of several processes with alpha = 2 the second panel of a
\* two-step sweep runs after the local tiles were scaled, a tile of another
\* process being left alone.
C32_Witness ==
    /\ cfg.routine = "trsmA" /\ cfg.alpha = 2 /\ cfg.p * cfg.q > 1
    /\ A_nt = 2
    /\ \E b \in TaskIds : /\ tasks[b].kind = "panel" /\ ~FirstPanel(b)
                          /\ st[b] = "running"
    /\ \E i \in 0..(A_nt - 1), c \in 0..(cfg.Bnt - 1) : ScalesOf(i, c) # {}
    /\ \E i \in 0..(A_nt - 1), c \in 0..(cfg.Bnt - 1) : ~tileIsLocal(i, c)

\* ---------------------------------------------------------------------- C33
\* Steps before step i whose tile A(i, k') belongs to this process: the
\* update terms of row i that this process computes.
LocalTerms(i) ==
    {kp \in 0..(A_nt - 1) : Before(kp, i) /\ tileIsLocal(i, kp)}

\* Number of updates of row i by step kp.
UpdatesBy(i, kp) ==
    Cardinality({n \in 1..Len(hist[i]) : hist[i][n] = <<"update", kp>>})

SeqOf(op, obj, cfrom, cto) ==
    {c.seq : c \in {c \in ops : /\ c.op = op /\ c.obj = obj
                                /\ c.cfrom = cfrom /\ c.cto = cto}}

\* Every position in S comes before every position in T, and both exist.
Precede(S, T) ==
    /\ Cardinality(S) = 1 /\ Cardinality(T) = 1
    /\ \A a \in S, b \in T : a < b

\* C34: for every input whose max-norm is finite and non-zero, whatever its
\* magnitude, stedc scales D and E by 1/Anorm before it allocates the
\* workspaces and solves, sets the matrix in which stedc_solve builds the
\* eigenvectors to the identity before stedc_solve, runs stedc_sort after
\* stedc_solve, and scales D back by Anorm as its last step.
C34_AlwaysScales ==
    (cfg.routine = "stedc" /\ Anorm \in {"tiny", "nonzero", "huge"}
       /\ pc \in {"scale_back", "done"}) =>
      LET downD == SeqOf("lascl", "D", "Anorm", "one")
          downE == SeqOf("lascl", "E", "Anorm", "one")
          allW  == SeqOf("insertLocalTiles", "W", "none", "none")
          allU  == SeqOf("insertLocalTiles", "U", "none", "none")
          ident == SeqOf("set_identity", "W", "none", "none")
          solve == SeqOf("stedc_solve", "W", "none", "none")
          sort  == SeqOf("stedc_sort", "Q", "none", "none")
          upD   == SeqOf("lascl", "D", "one", "Anorm")
      IN  /\ Precede(downD, allW) /\ Precede(downD, allU)
          /\ Precede(downE, allW) /\ Precede(downE, allU)
          /\ Precede(allW, solve) /\ Precede(allU, solve)
          /\ Precede(ident, solve)
          /\ Precede(solve, sort)
          /\ pc = "scale_back" => upD = {}
          /\ pc = "done" =>
               /\ Cardinality(upD) = 1
               /\ \A c \in ops : \A u \in upD : c.seq <= u

\* A matrix of ordinary magnitude, neither above the safe maximum nor below
\* the safe minimum, has been scaled, solved and scaled back.
C34_Witness ==
    /\ cfg.routine = "stedc" /\ cfg.n = MaxEigN /\ Anorm = "nonzero"
    /\ pc = "done"
    /\ SeqOf("lascl", "D", "one", "Anorm") # {}

\* ---------------------------------------------------------------------- C35
NonFiniteInput ==
    \E x \in {"inf", "nan"} :
        \/ \E i \in DOMAIN cfg.D : cfg.D[i] = x
        \/ \E i \in DOMAIN cfg.E : cfg.E[i] = x

\* C35: if the tridiagonal input of stedc contains Inf or NaN, stedc raises
\* the domain error and nothing else happens: no scaling, no workspace, no
\* write to D, E or Q.
C35_NonFiniteRejected ==
    (cfg.routine = "stedc" /\ NonFiniteInput) =>
        /\ pc \in {"stedc", "thrown", "caught", "terminated"}
        /\ ops = {}
        /\ Qout = "unwritten"
        /\ Dout = "entry"

\* The error was raised for an input with an infinite off-diagonal entry
\* next to finite diagonal entries.
C35_Witness ==
    /\ cfg.routine = "stedc" /\ cfg.n = MaxEigN
    /\ pc = "thrown"
    /\ \E i \in DOMAIN cfg.E : cfg.E[i] = "inf"
    /\ \A i \in DOMAIN cfg.D : cfg.D[i] = "nonzero"

\* ---------------------------------------------------------------------- C36
\* MPI calls of trnorm that have returned.
MpiDone == {c \in ops : c.kind = "mpi"}

MpiSeq(o) == {c.seq : c \in {c \in MpiDone : c.op = o}}

\* C36: for each valid norm kind every process makes the same MPI calls,
\* whatever its local data and the target: exactly one MPI_Allreduce, on
\* the communicator of the matrix, and for the Max norm the creation of the
\* reduction operator before it and its release after it and before trnorm
\* returns; every MPI call is made inside the critical section slate_mpi and
\* at most one is in progress at any time.
C36_OneAllreduce ==
    cfg.routine = "trnorm" =>
      /\ Cardinality(comm) <= 1
      /\ \A c \in comm \cup MpiDone : c.critical = "slate_mpi"
      /\ \A c \in MpiDone :
           /\ c.op = "MPI_Allreduce" => c.mpicomm = "A.mpiComm"
           /\ c.rop = IF cfg.norm = "Max" THEN "op_max_nan" ELSE "MPI_SUM"
      /\ pc = "done" =>
           /\ comm = {}
           /\ Cardinality(MpiSeq("MPI_Allreduce")) = 1
           /\ IF cfg.norm = "Max"
              THEN /\ Precede(MpiSeq("MPI_Op_create"), MpiSeq("MPI_Allreduce"))
                   /\ Precede(MpiSeq("MPI_Allreduce"), MpiSeq("MPI_Op_free"))
                   /\ Cardinality(MpiDone) = 3
              ELSE Cardinality(MpiDone) = 1

\* The Max norm on the devices returned after its operator was released,
\* the local maximum having been NaN.
C36_Witness ==
    /\ cfg.routine = "trnorm" /\ cfg.norm = "Max" /\ cfg.target = "Devices"
    /\ pc = "done"
    /\ kernel_info = "nan"
    /\ MpiSeq("MPI_Op_free") # {}

\* The pivots of the Pivots structure in pivot order: tile-rows in order,
\* and the pivots of a tile-row in order, each with its tile-row.
PivotList ==
    LET Flat[t \in 0..Len(pivots)] ==
            IF t = 0 THEN <<>>
            ELSE Flat[t - 1] \o [i \in 1..Len(pivots[t]) |->
                                   [t |-> t - 1, pv |-> pivots[t][i]]]
    IN  Flat[Len(pivots)]

\* Entries of ipiv that have been written.
Written == {r \in DOMAIN ipiv : ipiv[r] # NoValue}

\* C37: slate_gesv writes one ipiv entry per pivot, in pivot order: at every
\* point of the extraction the entries written are the first p_count ones,
\* and entry r is 1 + t*nb + tileIndex*nb + elementOffset for the r-th pivot
\* (tileIndex, elementOffset) of the structure, recorded in tile-row t; at
\* the return all n entries are written, every ipiv[r] is a 1-based row
\* index with r+1 <= ipiv[r] <= n, and the BLAS thread count is the one
\* found on entry.
C37_IpivFromPivots ==
    (cfg.routine = "gesv" /\ pc \in {"extract", "done"}) =>
        /\ Written = 0..(p_count - 1)
        /\ p_count <= Len(PivotList)
        /\ \A r \in Written :
              LET e == PivotList[r + 1]
              IN  ipiv[r] = 1 + e.t * cfg.nb + e.pv.tileIndex * cfg.nb
                              + e.pv.elementOffset
        /\ pc = "done" =>
              /\ p_count = Len(PivotList)
              /\ Written = 0..(cfg.n - 1)
              /\ \A r \in 0..(cfg.n - 1) : r + 1 <= ipiv[r] /\ ipiv[r] <= cfg.n
              /\ num_blas_threads = saved_num_blas_threads

\* A call has returned for a matrix of more than one tile-row, with a pivot
\* taken from a later tile and one at a nonzero offset, entered with more
\* than one BLAS thread.
C37_Witness ==
    /\ cfg.routine = "gesv" /\ pc = "done"
    /\ cfg.n = MaxN /\ cfg.nb = MaxNb
    /\ Len(pivots) > 1
    /\ pivots[1][1].tileIndex > 0
    /\ pivots[1][2].elementOffset > 0
    /\ ipiv[cfg.n - 1] = cfg.n
    /\ saved_num_blas_threads > 1
    /\ num_blas_threads > 1

====
